---- MODULE Spec2Model ----
(***************************************************************************)
(* A model of the authenticated RPC layer of arpc: the signing and         *)
(* verification assistant (arpc/assistant.py), the signed JSON codec       *)
(* (arpc/protocols/jsonsrpc.py), the plain JSON-RPC codec                  *)
(* (arpc/protocols/jsonrpc.py) and the client and server orchestrators     *)
(* (arpc/client.py, arpc/server.py).                                       *)
(*                                                                         *)
(* Python strings are sequences of one-character strings, so that the      *)
(* canonical string the assistant signs is a real concatenation.  Python's *)
(* None is the empty tuple and a present value x is <<x>>.                 *)
(***************************************************************************)
EXTENDS Integers, Sequences, FiniteSets, TLC

VARIABLES
    now,             \* int(time.time()), the clock both roles read
    request_nonces,  \* RPCServerAssistant._request_nonces: client -> (nonce -> time)
    chk,             \* observation of the last server_check_request call
    nchk,            \* observation of the last direct server_check_request_nonce call
    signed,          \* the request object the client role signed last
    delivered,       \* the server has accepted `signed` as the client signed it
    _id_counter,     \* JSONSRPCProtocol._id_counter of the client's codec
    closed,          \* RPCClient.closed
    call,            \* the RPCClient.call in progress, or the last one made
    _reply_nonces,   \* RPCClientAssistant._reply_nonces, in insertion order
    serializer,      \* the Serializer the Server was constructed with
    handled,         \* observation of Server.handler's run for the call in
                     \* progress, or of its last run
    assistant,       \* the RPCClientAssistant: its client and key
    rchk,            \* observation of the last client_check_response call
    rnchk,           \* observation of the last direct
                     \* client_check_response_nonce call
    _counter,        \* JSONRPCProtocol._counter of a plain codec
    created,         \* observation of the create_request calls made
    inflight,        \* the RPCClient.call coroutines running concurrently
    checking,        \* the server_check_request coroutines running
                     \* concurrently
    wire,            \* observation of the last codec operation applied to
                     \* a value on its own
    lifecycle        \* the RPCClient.open and RPCClient.close coroutines:
                     \* those awaiting the transport, the last completed

vars == <<now, request_nonces, chk, nchk, signed, delivered, _id_counter,
          closed, call, _reply_nonces, serializer, handled, assistant, rchk,
          rnchk, _counter, created, inflight, checking, wire, lifecycle>>

\* the observation of the codec operations and the lifecycle of the client
wirevars == <<wire, lifecycle>>

\* the state of the reply checks, the codecs and the concurrent coroutines
auxvars == <<assistant, rchk, rnchk, _counter, created, inflight, checking>>

\* the state of the client and server orchestrators
callvars == <<closed, call, _reply_nonces, serializer, handled>>

\* the state of the server assistant and of the signing client role
checkvars == <<request_nonces, chk, nchk, signed, delivered>>

None == <<>>
Some(x) == <<x>>

(***************************************************************************)
(* Bounds of the model.                                                    *)
(***************************************************************************)
\* how many times the clock advances
MaxTicks == 2
\* how many requests with an id the client's codec creates
MaxRequests == 1

(***************************************************************************)
(* assistant.py                                                            *)
(***************************************************************************)
MAX_TIMESTAMP_DELTA == 3600

\* the clock value the model starts at: late enough for a timestamp one
\* second outside the window to be a non-negative integer
Epoch == MAX_TIMESTAMP_DELTA + 1

Horizon == Epoch + MaxTicks * (MAX_TIMESTAMP_DELTA + 1)

abs(x) == IF x < 0 THEN -x ELSE x

(***************************************************************************)
(* Python's str() of an integer and json.dumps of the parameter values.    *)
(***************************************************************************)
Digits == <<"0", "1", "2", "3", "4", "5", "6", "7", "8", "9">>

RECURSIVE NatStr(_)
NatStr(n) == IF n < 10 THEN <<Digits[n + 1]>>
             ELSE NatStr(n \div 10) \o <<Digits[(n % 10) + 1]>>

str(n) == IF n < 0 THEN <<"-">> \o NatStr(-n) ELSE NatStr(n)

\* json.dumps of a str: quoted, with the quote and the backslash escaped
RECURSIVE JsonEscape(_)
JsonEscape(s) ==
    IF s = <<>> THEN <<>>
    ELSE (IF Head(s) = "\"" THEN <<"\\", "\"">>
          ELSE IF Head(s) = "\\" THEN <<"\\", "\\">>
          ELSE <<Head(s)>>) \o JsonEscape(Tail(s))

json_dumps_str(s) == <<"\"">> \o JsonEscape(s) \o <<"\"">>

\* json.dumps of a list of integers: "[2, 3]"
RECURSIVE JsonItems(_)
JsonItems(a) ==
    IF a = <<>> THEN <<>>
    ELSE IF Len(a) = 1 THEN str(a[1])
    ELSE str(a[1]) \o <<",", " ">> \o JsonItems(Tail(a))

json_dumps_list(a) == <<"[">> \o JsonItems(a) \o <<"]">>

\* json.dumps of an (ordered) dict from str keys to integers: {"a": 1}
RECURSIVE JsonPairs(_)
JsonPairs(kw) ==
    IF kw = <<>> THEN <<>>
    ELSE LET item == json_dumps_str(kw[1][1]) \o <<":", " ">> \o str(kw[1][2])
         IN  IF Len(kw) = 1 THEN item
             ELSE item \o <<",", " ">> \o JsonPairs(Tail(kw))

json_dumps_dict(kw) == <<"{">> \o JsonPairs(kw) \o <<"}">>

(***************************************************************************)
(* jsonsrpc.py: JSONSRPCRequest._to_dict.  A request is a record           *)
(*   [client, method, id, nonce, timestamp, args, kwargs, sig]             *)
(* with id an optional integer, args a sequence of integers, kwargs a      *)
(* sequence of <<key, value>> pairs; an empty args/kwargs is Python's      *)
(* falsy None, [] or {}.  The dict is a record whose optional entries      *)
(* are optional values.                                                    *)
(***************************************************************************)
JSONSRPCRequest_to_dict(req) ==
    [method    |-> req.method,
     client    |-> req.client,
     nonce     |-> req.nonce,
     timestamp |-> req.timestamp,
     sig       |-> req.sig,
     params    |-> IF req.kwargs # <<>> THEN Some(json_dumps_dict(req.kwargs))
                   ELSE IF req.args # <<>> THEN Some(json_dumps_list(req.args))
                   ELSE None,
     id        |-> req.id]

(***************************************************************************)
(* assistant.py: the canonical string of a request and the signature.      *)
(***************************************************************************)
_req_msg(req) ==
    LET d      == JSONSRPCRequest_to_dict(req)
        params == IF d.params # None THEN json_dumps_str(d.params[1]) ELSE <<>>
        s      == d.client \o d.method
        s2     == IF d.id # None THEN s \o str(d.id[1]) ELSE s
    IN  s2 \o d.nonce \o str(d.timestamp) \o params

\* base64(HMAC-SHA256(key, msg)): an ideal MAC, a value that determines and
\* is determined by the key and the message
_sign(key, msg) == <<"hmac", key, msg>>

\* secrets.compare_digest on two strings
compare_digest(a, b) == a = b

(***************************************************************************)
(* RPCServerAssistant                                                      *)
(***************************************************************************)
\* the identities of the model
ClientA == <<"A">>
ClientC == <<"C">>

\* the secret each identity signs with (RPCClientAssistant.key)
ClientKey == (ClientA :> <<"K">>) @@ (ClientC :> <<"X">>)

\* RPCServerAssistant.clients: the server's key table; C is not registered
clients == (ClientA :> <<"K">>)

server_get_client_key(client) ==
    IF client \in DOMAIN clients THEN Some(clients[client]) ELSE None

\* Python's "not key" for a key that is None or a str
Falsy(key) == key = None \/ key = Some(<<>>)

\* (variant) a nonce is dropped as soon as it is a full window old
NonceExpired_AtWindow(t, rec) == abs(t - rec) >= MAX_TIMESTAMP_DELTA

\* a stored nonce recorded at time rec is dropped by a check made at time t
NonceExpired(t, rec) == abs(t - rec) > MAX_TIMESTAMP_DELTA

\* (variant) a timestamp exactly a window away is refused too
TimestampStale_AtWindow(t, ts) == abs(t - ts) >= MAX_TIMESTAMP_DELTA

\* a timestamp ts is refused at time t
TimestampStale(t, ts) == abs(t - ts) > MAX_TIMESTAMP_DELTA

\* (variant) the nonce is looked up, and recorded only later, by the caller
server_check_request_nonce_NoRecord(store, client, nonce, t) ==
    LET s1     == IF client \in DOMAIN store THEN store
                  ELSE store @@ (client :> <<>>)
        nonces == s1[client]
        kept   == {n \in DOMAIN nonces : ~NonceExpired(t, nonces[n])}
        pruned == [n \in kept |-> nonces[n]]
    IN  [ok |-> nonce \notin DOMAIN pruned,
         store |-> [s1 EXCEPT ![client] = pruned]]

\* (variant) one set of nonces for all clients: a nonce any client has a
\* record of is refused
server_check_request_nonce_Shared(store, client, nonce, t) ==
    LET s1     == IF client \in DOMAIN store THEN store
                  ELSE store @@ (client :> <<>>)
        nonces == s1[client]
        kept   == {n \in DOMAIN nonces : ~NonceExpired(t, nonces[n])}
        pruned == [n \in kept |-> nonces[n]]
    IN  IF \/ nonce \in DOMAIN pruned
           \/ \E c \in DOMAIN s1 \ {client} : nonce \in DOMAIN s1[c]
        THEN [ok |-> FALSE, store |-> [s1 EXCEPT ![client] = pruned]]
        ELSE [ok |-> TRUE,
              store |-> [s1 EXCEPT ![client] = pruned @@ (nonce :> t)]]

\* the nonce check: [ok |-> the returned bool, store |-> _request_nonces after]
server_check_request_nonce(store, client, nonce, t) ==
    LET s1     == IF client \in DOMAIN store THEN store
                  ELSE store @@ (client :> <<>>)
        nonces == s1[client]
        kept   == {n \in DOMAIN nonces : ~NonceExpired(t, nonces[n])}
        pruned == [n \in kept |-> nonces[n]]
    IN  IF nonce \in DOMAIN pruned
        THEN [ok |-> FALSE, store |-> [s1 EXCEPT ![client] = pruned]]
        ELSE [ok |-> TRUE,
              store |-> [s1 EXCEPT ![client] = pruned @@ (nonce :> t)]]

\* (variant) the signature is compared before the nonce is looked up, so a
\* request with a bad signature leaves no nonce behind
server_check_request_SigFirst(store, t, req) ==
    LET key == server_get_client_key(req.client)
    IN  IF Falsy(key)
        THEN [outcome |-> "UnknownClientError", store |-> store, hmacs |-> 0]
        ELSE IF TimestampStale(t, req.timestamp)
        THEN [outcome |-> "TimestampError", store |-> store, hmacs |-> 0]
        ELSE IF ~compare_digest(_sign(key[1], _req_msg(req)), req.sig)
        THEN [outcome |-> "SignatureError", store |-> store, hmacs |-> 1]
        ELSE LET nc == server_check_request_nonce(store, req.client, req.nonce, t)
             IN  IF ~nc.ok
                 THEN [outcome |-> "NonceError", store |-> nc.store, hmacs |-> 1]
                 ELSE [outcome |-> "ok", store |-> nc.store, hmacs |-> 1]

\* (variant) the timestamp is looked at before the key table
server_check_request_TimestampFirst(store, t, req) ==
    LET key == server_get_client_key(req.client)
    IN  IF TimestampStale(t, req.timestamp)
        THEN [outcome |-> "TimestampError", store |-> store, hmacs |-> 0]
        ELSE IF Falsy(key)
        THEN [outcome |-> "UnknownClientError", store |-> store, hmacs |-> 0]
        ELSE LET nc == server_check_request_nonce(store, req.client, req.nonce, t)
             IN  IF ~nc.ok
                 THEN [outcome |-> "NonceError", store |-> nc.store, hmacs |-> 0]
                 ELSE IF ~compare_digest(_sign(key[1], _req_msg(req)), req.sig)
                 THEN [outcome |-> "SignatureError", store |-> nc.store,
                       hmacs |-> 1]
                 ELSE [outcome |-> "ok", store |-> nc.store, hmacs |-> 1]

\* server_check_request: the error it raises ("ok" when it returns), the
\* nonce store it leaves, and the number of HMACs it computed
server_check_request(store, t, req) ==
    LET key == server_get_client_key(req.client)
    IN  IF Falsy(key)
        THEN [outcome |-> "UnknownClientError", store |-> store, hmacs |-> 0]
        ELSE IF TimestampStale(t, req.timestamp)
        THEN [outcome |-> "TimestampError", store |-> store, hmacs |-> 0]
        ELSE LET nc == server_check_request_nonce(store, req.client, req.nonce, t)
             IN  IF ~nc.ok
                 THEN [outcome |-> "NonceError", store |-> nc.store, hmacs |-> 0]
                 ELSE IF ~compare_digest(_sign(key[1], _req_msg(req)), req.sig)
                 THEN [outcome |-> "SignatureError", store |-> nc.store,
                       hmacs |-> 1]
                 ELSE [outcome |-> "ok", store |-> nc.store, hmacs |-> 1]

(***************************************************************************)
(* The client role: RPCClientAssistant and client_sign_request.            *)
(***************************************************************************)
\* a request object as the codec's create_request leaves it: the fields the
\* assistant fills in are still None
NewRequest(method, id, args, kwargs) ==
    [client |-> None, method |-> method, id |-> id, nonce |-> None,
     timestamp |-> 0, args |-> args, kwargs |-> kwargs, sig |-> None]

\* (variant) the signature is computed before the timestamp is assigned
client_sign_request_SignEarly(request, nonce, t, client, key) ==
    LET r == [request EXCEPT !.nonce = nonce, !.client = client]
    IN  [r EXCEPT !.sig = _sign(key, _req_msg(r)), !.timestamp = t]

\* client_sign_request on `request`, the assistant being (client, key), the
\* clock reading t and client_get_request_nonce returning nonce
client_sign_request(request, nonce, t, client, key) ==
    LET r == [request EXCEPT !.nonce = nonce, !.timestamp = t, !.client = client]
    IN  [r EXCEPT !.sig = _sign(key, _req_msg(r))]

(***************************************************************************)
(* The environment of the server assistant.                                *)
(***************************************************************************)
\* the nonces client_get_request_nonce may return; a base85 token may
\* begin with a digit
Nonces == {<<"n">>, <<"1", "n">>}

\* a key no identity owns (a forger's)
ForgedKey == <<"Z">>

\* how far a client's clock is from the server's when it signs
Offsets == {-(MAX_TIMESTAMP_DELTA + 1), -MAX_TIMESTAMP_DELTA,
            -(MAX_TIMESTAMP_DELTA - 1), 0,
            MAX_TIMESTAMP_DELTA, MAX_TIMESTAMP_DELTA + 1}

TickSteps == {MAX_TIMESTAMP_DELTA, MAX_TIMESTAMP_DELTA + 1}

\* the requests that can arrive at clock t for the first time: signed by
\* their client at clock t + o, or, for the registered client, carrying a
\* forger's signature
ArrivingRequests(t) ==
    {client_sign_request(NewRequest(<<"m">>, Some(1), <<2, 3>>, <<>>),
                         n, t + o, ClientA, ClientKey[ClientA]) :
        n \in Nonces, o \in Offsets}
    \cup
    {client_sign_request(NewRequest(<<"m">>, Some(1), <<2, 3>>, <<>>),
                         <<"n">>, t + o, ClientA, ForgedKey) :
        o \in Offsets}
    \cup
    {client_sign_request(NewRequest(<<"m">>, Some(1), <<2, 3>>, <<>>),
                         <<"n">>, t + o, ClientC, ClientKey[ClientC]) :
        o \in {-(MAX_TIMESTAMP_DELTA + 1), 0}}

NoRequest == NewRequest(<<>>, None, <<>>, <<>>)

\* no call has been made: RPCClient.call's progress is
\*   pc       "idle", "sent" (awaiting transport.send_message), "replied"
\*            (send_message has returned) or "done"
\*   n        the number of calls started
\*   req      the request object of the call, message the bytes handed to
\*            the transport, expect_reply the flag handed over with them,
\*            reply the bytes the transport returned
\*   parsed   parse_reply has been called on the reply, checked
\*            client_check_response on what it returned
\*   honest   the reply is what Server.handler made of the message
\*   outcome  "none", "returned" or the exception the call raised
\*   result   the value returned
NoCall ==
    [pc |-> "idle", n |-> 0, one_way |-> FALSE, req |-> NoRequest,
     message |-> None, expect_reply |-> FALSE, reply |-> None,
     honest |-> FALSE, parsed |-> FALSE, checked |-> FALSE,
     outcome |-> "none", result |-> None]

\* Server.handler has not run: an observation is the message, the request
\* it was serialized from, what server_check_request says of that request,
\* whether the dispatcher was invoked and whether it is one that returns,
\* the exception handler raised ("none" when it returned), the response
\* dict it built and the bytes it returned
NoHandled ==
    [message |-> None, req |-> NoRequest, check |-> "none",
     dispatched |-> FALSE, returns |-> FALSE, raised |-> "none",
     response |-> None, result |-> None]

\* a response object none of whose attributes has been assigned
NoResponse ==
    [isError |-> FALSE, unique_id |-> None, client |-> <<>>, nonce |-> None,
     timestamp |-> 0, sig |-> None, result |-> 0, error |-> <<>>,
     _jsonrpc_error_code |-> 0]

\* no client_check_response call has been made: an observation is the
\* response checked, the clock at the call, the exception raised ("none"
\* when the check returned), the number of HMACs computed, and, when the
\* call repeats the response of the call before it (`again`), that call's
\* time and outcome and whether that call was the first presentation of a
\* response whose nonce was not in the store and whose timestamp was
\* within the window (`fresh`)
NoResponseCheck ==
    [seq |-> 0, response |-> NoResponse, at |-> 0, raised |-> "none",
     hmacs |-> 0, again |-> FALSE, fresh |-> FALSE, prevAt |-> 0,
     prev |-> "none"]

\* no direct client_check_response_nonce call has been made
NoNonceCheck ==
    [seq |-> 0, nonce |-> <<>>, at |-> 0, raised |-> "none", ok |-> FALSE]

\* no create_request call has been made on a plain codec constructed with
\* counter c: an observation is the codec and the arguments of the last
\* call (one_way; both args and kwargs given), the exception it raised,
\* the id of the request it returned, and, for the plain codec, the value
\* it was constructed with and the ids of the requests it has returned to
\* calls with one_way=False, in order
NoCreated(c) ==
    [seq |-> 0, codec |-> "none", one_way |-> FALSE, both |-> FALSE,
     raised |-> None, uid |-> None, initial |-> c, ids |-> <<>>]

\* no codec operation has been applied: an observation is the operation
\* (op), its inputs and what it returned or raised
NoWire == [op |-> "none"]

\* no open or close has been started on the client: opening and closing
\* tell that an open or a close awaits the transport, last is the
\* lifecycle operation that completed last ("none", "open" or "close") and
\* n the number of operations started
NoLifecycle ==
    [opening |-> FALSE, closing |-> FALSE, last |-> "none", n |-> 0]

\* the state after construction of everything but the Server, the client
\* assistant and the plain codec
InitParts ==
    /\ now = Epoch
    /\ request_nonces = <<>>
    /\ chk = [seq |-> 0, req |-> NoRequest, at |-> 0, outcome |-> "none",
              hmacs |-> 0, replayed |-> FALSE, prev |-> "none"]
    /\ nchk = [seq |-> 0, client |-> <<>>, nonce |-> <<>>, at |-> 0,
               ok |-> FALSE, before |-> None]
    /\ signed = NoRequest
    /\ delivered = FALSE
    /\ _id_counter = 0
    /\ closed = TRUE
    /\ call = NoCall
    /\ _reply_nonces = <<>>
    /\ handled = NoHandled
    /\ rchk = NoResponseCheck
    /\ rnchk = NoNonceCheck
    /\ inflight = <<>>
    /\ checking = <<>>
    /\ wire = NoWire
    /\ lifecycle = NoLifecycle

\* RPCClientAssistant(A, K) and JSONRPCProtocol()
InitDefaults ==
    /\ assistant = [client |-> ClientA, key |-> ClientKey[ClientA]]
    /\ _counter = 0
    /\ created = NoCreated(0)

Init == InitParts /\ InitDefaults /\ serializer = "JsonSerializer"

\* time passes
Tick ==
    /\ \E d \in TickSteps : now + d <= Horizon /\ now' = now + d
    /\ UNCHANGED <<request_nonces, chk, nchk, signed, delivered, _id_counter>>
    /\ UNCHANGED callvars
    /\ UNCHANGED auxvars
    /\ UNCHANGED wirevars

\* one whole server_check_request call on req.  The observation chk keeps
\* the call's input and result; `replayed` tells that this very request has
\* been accepted before, and `prev` is the outcome of the call before this
\* one when that call was for the same client and nonce (kept where
\* `tracked`, "none" elsewhere).
CheckRequest(req, replayed, tracked) ==
    LET r == server_check_request(request_nonces, now, req)
    IN  /\ request_nonces' = r.store
        /\ chk' = [seq |-> 1 - chk.seq, req |-> req, at |-> now,
                   outcome |-> r.outcome, hmacs |-> r.hmacs,
                   replayed |-> replayed,
                   prev |-> IF /\ tracked
                               /\ chk.req.client = req.client
                               /\ chk.req.nonce = req.nonce
                            THEN chk.outcome ELSE "none"]

\* a request arrives and is checked
ServerCheckRequest ==
    /\ \E req \in ArrivingRequests(now) : CheckRequest(req, FALSE, TRUE)
    /\ UNCHANGED <<now, nchk, signed, delivered, _id_counter>>
    /\ UNCHANGED callvars
    /\ UNCHANGED auxvars
    /\ UNCHANGED wirevars

\* the request checked last is presented again, unchanged
ServerCheckReplay ==
    /\ chk.req # NoRequest
    /\ CheckRequest(chk.req, chk.replayed \/ chk.outcome = "ok", TRUE)
    /\ UNCHANGED <<now, nchk, signed, delivered, _id_counter>>
    /\ UNCHANGED callvars
    /\ UNCHANGED auxvars
    /\ UNCHANGED wirevars

\* server_check_request_nonce called on its own; `before` is the time the
\* pair was recorded at when the call was made, if it was
ServerCheckRequestNonce ==
    /\ \E c \in DOMAIN ClientKey, n \in Nonces :
          LET r == server_check_request_nonce(request_nonces, c, n, now)
          IN  /\ request_nonces' = r.store
              /\ nchk' = [seq |-> 1 - nchk.seq, client |-> c, nonce |-> n,
                          at |-> now, ok |-> r.ok,
                          before |-> IF /\ c \in DOMAIN request_nonces
                                        /\ n \in DOMAIN request_nonces[c]
                                     THEN Some(request_nonces[c][n])
                                     ELSE None]
    /\ UNCHANGED <<now, chk, signed, delivered, _id_counter>>
    /\ UNCHANGED callvars
    /\ UNCHANGED auxvars
    /\ UNCHANGED wirevars

\* the server assistant checking the requests that arrive
Next == Tick \/ ServerCheckRequest \/ ServerCheckReplay

Spec == Init /\ [][Next]_vars

\* the nonce store on its own
NextNonce == Tick \/ ServerCheckRequestNonce

SpecNonce == Init /\ [][NextNonce]_vars

(***************************************************************************)
(* jsonsrpc.py: JSONSRPCProtocol.create_request, and the client signing    *)
(* what it creates.                                                         *)
(***************************************************************************)
\* (variant) the id is the counter's value and the counter is left alone
_get_unique_id_NoIncrement(counter) ==
    [counter |-> counter, uid |-> counter + 1]

\* _get_unique_id: the counter is incremented and its new value returned;
\* [counter, uid]
_get_unique_id(counter) ==
    [counter |-> counter + 1, uid |-> counter + 1]

\* create_request: [raised, counter, request]; with both args and kwargs
\* it raises InvalidRequestError before anything is assigned
JSONSRPC_create_request(counter, method, args, kwargs, one_way) ==
    LET u == _get_unique_id(counter)
    IN  IF args # <<>> /\ kwargs # <<>>
        THEN [raised |-> "InvalidRequestError", counter |-> counter,
              request |-> NoRequest]
        ELSE [raised |-> "none",
              counter |-> IF one_way THEN counter ELSE u.counter,
              request |-> NewRequest(method,
                                     IF one_way THEN None ELSE Some(u.uid),
                                     args, kwargs)]

Methods == {<<"m">>, <<"m", "1">>}

\* the (args, kwargs) a call is made with: no parameters, positional, keyword
Params == {<<<<>>, <<>>>>, <<<<2, 3>>, <<>>>>, <<<<>>, <<<<<<"a">>, 1>>>>>>}

\* the client creates a request and signs it (client.py's call up to the
\* send): create_request, then client_sign_request
ClientSignRequest ==
    /\ _id_counter < MaxRequests
    /\ \E m \in Methods, p \in Params, one_way \in BOOLEAN, n \in {<<"n">>} :
          LET c == JSONSRPC_create_request(_id_counter, m, p[1], p[2], one_way)
          IN  /\ c.raised = "none"
              /\ _id_counter' = c.counter
              /\ signed' = client_sign_request(c.request, n, now, ClientA,
                                               ClientKey[ClientA])
    /\ delivered' = FALSE
    /\ UNCHANGED <<now, request_nonces, chk, nchk>>
    /\ UNCHANGED callvars
    /\ UNCHANGED auxvars
    /\ UNCHANGED wirevars

\* the signed request reaches the server's check as the client signed it
ServerCheckSigned ==
    /\ signed # NoRequest
    /\ CheckRequest(signed, delivered, FALSE)
    /\ delivered' = (delivered \/ chk'.outcome = "ok")
    /\ UNCHANGED <<now, nchk, signed, _id_counter>>
    /\ UNCHANGED callvars
    /\ UNCHANGED auxvars
    /\ UNCHANGED wirevars

\* the fields somebody on the wire can put in place of the signed ones
TamperIds == {None} \cup {Some(i) : i \in 1..MaxRequests}

\* a request with the signed request's client and signature, and other
\* fields, reaches the server's check
ServerCheckTampered ==
    /\ signed # NoRequest
    /\ \E m \in Methods, i \in TamperIds, n \in Nonces, p \in Params,
          ts \in {signed.timestamp, signed.timestamp - 1} :
          LET req == [signed EXCEPT !.method = m, !.id = i, !.nonce = n,
                                    !.timestamp = ts, !.args = p[1],
                                    !.kwargs = p[2]]
          IN  /\ req # signed
              /\ ts # signed.timestamp => req = [signed EXCEPT !.timestamp = ts]
              /\ CheckRequest(req, FALSE, FALSE)
    /\ UNCHANGED <<now, nchk, signed, delivered, _id_counter>>
    /\ UNCHANGED callvars
    /\ UNCHANGED auxvars
    /\ UNCHANGED wirevars

\* signing on the client, checking on the server
NextSign == ClientSignRequest \/ ServerCheckSigned \/ ServerCheckTampered

SpecSign == Init /\ [][NextSign]_vars

(***************************************************************************)
(* Bytes on the wire.  A byte string is the dict it encodes and the        *)
(* encoding: "json" for the UTF-8 text json.dumps writes, "pickle" for     *)
(* pickle.dumps' output.  A dict is a function from its keys.              *)
(***************************************************************************)
JsonBytes(d) == [enc |-> "json", data |-> d]

PickleBytes(d) == [enc |-> "pickle", data |-> d]

\* a dict's keys
Keys(d) == DOMAIN d

\* JSONSRPCRequest.serialize: json_dumps(self._to_dict()).encode().  The
\* keys `params` and `id` are in the dict only when _to_dict puts them
\* there.  A JSON value that may be null is an optional value, and a
\* params value is tagged with its JSON type.
JSONSRPCRequest_serialize(req) ==
    LET d    == JSONSRPCRequest_to_dict(req)
        keys == {k \in DOMAIN d : k \notin {"params", "id"} \/ d[k] # None}
    IN  JsonBytes([k \in keys |->
                     IF k = "params" THEN <<"str", d[k][1]>>
                     ELSE d[k]])

(***************************************************************************)
(* serializers/json.py, serializers/pickle.py                              *)
(***************************************************************************)
Serializers == {"JsonSerializer", "PickleSerializer"}

\* JsonSerializer.deserialize: json.loads(data).encode().  json.loads
\* fails on bytes that are not JSON text; on JSON text it gives the dict,
\* and a dict has no encode.
JsonSerializer_deserialize(data) ==
    IF data.enc # "json" THEN [raised |-> "ValueError", value |-> None]
    ELSE [raised |-> "AttributeError", value |-> None]

\* PickleSerializer.deserialize: pickle.loads(data)
PickleSerializer_deserialize(data) ==
    IF data.enc # "pickle" THEN [raised |-> "UnpicklingError", value |-> None]
    ELSE [raised |-> "none", value |-> Some(data.data)]

Serializer_deserialize(ser, data) ==
    IF ser = "JsonSerializer" THEN JsonSerializer_deserialize(data)
    ELSE PickleSerializer_deserialize(data)

\* JsonSerializer.serialize: json_dumps(message); PickleSerializer.serialize:
\* pickle.dumps(message)
Serializer_serialize(ser, message) ==
    IF ser = "JsonSerializer" THEN JsonBytes(message) ELSE PickleBytes(message)

(***************************************************************************)
(* protocols/jsonrpc.py: the codec Server.handler drives.  An exception is *)
(* a record [class, rpc, code]: rpc tells that it is an                    *)
(* exceptions.RpcError, which alone has a code.                            *)
(***************************************************************************)
JSON_RPC_VERSION == <<"2", ".", "0">>

JSONRPC_ALLOWED_REQUEST_KEYS == {"id", "jsonrpc", "method", "params"}

PARSE_ERROR_CODE == -32700
INVALID_REQUEST_CODE == -32600
METHOD_NOT_FOUND_CODE == -32601
INVALID_PARAMS_CODE == -32602
INTERNAL_ERROR_CODE == -32603
MIN_VALID_SERVER_ERROR_CODE == -32099
MAX_VALID_SERVER_ERROR_CODE == -32000

\* the messages of the exceptions
ParseErrorMessage ==
    <<"P", "a", "r", "s", "e", " ", "e", "r", "r", "o", "r">>

InvalidRequestMessage ==
    <<"I", "n", "v", "a", "l", "i", "d", " ", "R", "e", "q", "u", "e", "s",
      "t">>

MethodNotFoundMessage ==
    <<"M", "e", "t", "h", "o", "d", " ", "n", "o", "t", " ", "f", "o", "u",
      "n", "d">>

InvalidParamsMessage ==
    <<"I", "n", "v", "a", "l", "i", "d", " ", "p", "a", "r", "a", "m", "s">>

InternalErrorMessage ==
    <<"I", "n", "t", "e", "r", "n", "a", "l", " ", "e", "r", "r", "o", "r">>

ServerErrorMessage ==
    <<"S", "e", "r", "v", "e", "r", " ", "e", "r", "r", "o", "r">>

ParamsTypeMessage ==
    <<"p", "a", "r", "a", "m", "s", " ", "m", "u", "s", "t", " ", "b", "e",
      " ", "l", "i", "s", "t", " ", "o", "r", " ", "d", "i", "c", "t">>

JSONRPCParseError ==
    [class |-> "ParseError", rpc |-> TRUE, code |-> Some(PARSE_ERROR_CODE),
     message |-> ParseErrorMessage, data |-> None]

JSONRPCMethodNotFoundError ==
    [class |-> "MethodNotFoundError", rpc |-> TRUE,
     code |-> Some(METHOD_NOT_FOUND_CODE), message |-> MethodNotFoundMessage,
     data |-> None]

JSONRPCInvalidParamsError(message, data) ==
    [class |-> "InvalidParamsError", rpc |-> TRUE,
     code |-> Some(INVALID_PARAMS_CODE), message |-> message, data |-> data]

JSONRPCInternalError ==
    [class |-> "InternalError", rpc |-> TRUE,
     code |-> Some(INTERNAL_ERROR_CODE), message |-> InternalErrorMessage,
     data |-> None]

JSONRPCServerError ==
    [class |-> "ServerError", rpc |-> TRUE,
     code |-> Some(MAX_VALID_SERVER_ERROR_CODE),
     message |-> ServerErrorMessage, data |-> None]

\* the name JSONRPCInvalidRequestError is bound twice in the module; the
\* binding in force is the second, a plain exceptions.BaseError that has
\* neither code nor message attribute
JSONRPCInvalidRequestError ==
    [class |-> "BaseError", rpc |-> FALSE, code |-> None,
     message |-> InvalidRequestMessage, data |-> None]

\* an exception that is no RpcError, of the given class
Raised(class, message) ==
    [class |-> class, rpc |-> FALSE, code |-> None, message |-> message,
     data |-> None]

\* JSONRPCRequest(method, uid, args, kwargs)
JSONRPCRequest(method, uid, args, kwargs) ==
    [method |-> method, uid |-> uid, args |-> args, kwargs |-> kwargs]

\* A value a decoded dict holds under `id` is None (null or absent), Some(n)
\* for the integer n, or a pair of its type's tag and its content for a
\* string or a list; under `method` it is a string, or such a pair for a
\* value that is no string.
JsonTags == {"None", "str", "list", "dict"}

\* isinstance(v, str) of the value under `method`
IsStr(v) == Len(v) = 0 \/ v[1] \notin JsonTags

\* isinstance(uid, int) of the value under `id`
IsInt(uid) == Len(uid) = 1

\* bool(uid): None, 0, '' and [] are false
Truthy(uid) ==
    IF Len(uid) = 0 THEN FALSE
    ELSE IF Len(uid) = 1 THEN uid[1] # 0
    ELSE uid[2] # <<>>

\* parse_request on a dict: the exception it raises, or the request.  The
\* id is tested by `if uid and not isinstance(uid, int)`; without params
\* data.get('params') is None, neither list nor dict.
JSONRPC_parse_request(data) ==
    IF \E k \in Keys(data) : k \notin JSONRPC_ALLOWED_REQUEST_KEYS
    THEN [exception |-> Some(JSONRPCInvalidRequestError), request |-> None]
    ELSE IF "jsonrpc" \notin Keys(data) \/ data.jsonrpc # JSON_RPC_VERSION
    THEN [exception |-> Some(JSONRPCInvalidRequestError), request |-> None]
    ELSE IF "method" \notin Keys(data)
    THEN [exception |-> Some(Raised("KeyError", <<>>)), request |-> None]
    ELSE IF ~IsStr(data.method)
    THEN [exception |-> Some(JSONRPCInvalidRequestError), request |-> None]
    ELSE LET uid    == IF "id" \in Keys(data) THEN data.id ELSE None
             params == IF "params" \in Keys(data) THEN data.params
                       ELSE <<"None", <<>>>>
         IN  IF Truthy(uid) /\ ~IsInt(uid)
             THEN [exception |-> Some(JSONRPCInvalidRequestError),
                   request |-> None]
             ELSE IF params[1] = "list"
             THEN [exception |-> None,
                   request |-> Some(JSONRPCRequest(data.method, uid,
                                                   params[2], <<>>))]
             ELSE IF params[1] = "dict"
             THEN [exception |-> None,
                   request |-> Some(JSONRPCRequest(data.method, uid,
                                                   <<>>, params[2]))]
             ELSE [exception |-> Some(JSONRPCInvalidParamsError(
                                          ParamsTypeMessage, None)),
                   request |-> None]

\* JSONRPCSuccessResponse.to_data
JSONRPCSuccessResponse_to_data(uid, result) ==
    [jsonrpc |-> JSON_RPC_VERSION, id |-> uid, result |-> result]

\* JSONRPCErrorResponse.to_data: the error has a data entry only when the
\* data is truthy
JSONRPCErrorResponse_to_data(uid, code, message, data) ==
    [jsonrpc |-> JSON_RPC_VERSION, id |-> uid,
     error |-> IF data # None /\ data # Some(<<>>)
               THEN [code |-> code, message |-> message, data |-> data[1]]
               ELSE [code |-> code, message |-> message]]

\* create_error_response: [raised, response]; the response is given as its
\* to_data dict.  Reading .code of the codeless JSONRPCInvalidRequestError
\* raises AttributeError.
JSONRPC_create_error_response(exception, request) ==
    LET uid == IF request # None THEN request[1].uid ELSE None
        e   == IF exception.rpc THEN exception
               ELSE IF exception.class = "ParseError" THEN JSONRPCParseError
               ELSE IF exception.class = "InvalidRequestError"
                    THEN JSONRPCInvalidRequestError
               ELSE IF exception.class = "MethodNotFoundError"
                    THEN JSONRPCMethodNotFoundError
               ELSE IF exception.class = "InvalidParamsError"
                    THEN JSONRPCInvalidParamsError(InvalidParamsMessage,
                                                   Some(exception.message))
               ELSE IF exception.class = "InternalError"
                    THEN JSONRPCInternalError
               ELSE IF exception.class = "ServerError" THEN JSONRPCServerError
               ELSE JSONRPCInternalError
    IN  IF e.code = None
        THEN [raised |-> "AttributeError", response |-> None]
        ELSE [raised |-> "none",
              response |-> Some(JSONRPCErrorResponse_to_data(
                                    uid, e.code[1], e.message, e.data))]

(***************************************************************************)
(* The dispatcher, which the Server is handed: dispatch(request) returns   *)
(* the method's value or raises.                                           *)
(***************************************************************************)
\* the value the dispatcher's method returns
Value == 5

\* what a dispatcher may do with a request: return Value, or raise the
\* exceptions.py error named, or some other exception
Dispatchers == {"returns", "MethodNotFoundError", "InvalidRequestError",
                "Exception"}

Dispatcher_dispatch(d, request) ==
    IF d = "returns" THEN [exception |-> None, reply |-> Some(Value)]
    ELSE [exception |-> Some(Raised(d, <<>>)), reply |-> None]

(***************************************************************************)
(* server.py: Server.handler on one message, the Server having been built  *)
(* with JSONRPCProtocol, the serializer ser and a dispatcher that behaves  *)
(* as d.  The result is the exception handler raises ("none" when it       *)
(* returns), the response dict it built, the bytes it returns and whether  *)
(* the dispatcher was invoked.                                              *)
(***************************************************************************)
\* (variant) the error response to a message that does not parse is bound
\* to the id the message carries
Server_handler_BindsId(ser, d, message) ==
    LET req_data == Serializer_deserialize(ser, message)
        parsed   == JSONRPC_parse_request(req_data.value[1])
        reply    == Dispatcher_dispatch(d, parsed.request[1])
        \* the try block: where it stopped, with what
        try == IF req_data.raised # "none"
               THEN [exception |-> Some(Raised(req_data.raised, <<>>)),
                     request |-> None, dispatched |-> FALSE]
               ELSE IF parsed.exception # None
               THEN [exception |-> parsed.exception,
                     request |-> IF "id" \in Keys(req_data.value[1])
                                 THEN Some(JSONRPCRequest(
                                               <<>>, req_data.value[1].id,
                                               <<>>, <<>>))
                                 ELSE None,
                     dispatched |-> FALSE]
               ELSE [exception |-> reply.exception,
                     request |-> parsed.request, dispatched |-> TRUE]
        response == IF try.exception = None
                    THEN [raised |-> "none",
                          response |-> Some(JSONRPCSuccessResponse_to_data(
                                                try.request[1].uid,
                                                reply.reply[1]))]
                    ELSE JSONRPC_create_error_response(try.exception[1],
                                                       try.request)
    IN  [raised     |-> response.raised,
         response   |-> response.response,
         result     |-> IF response.raised = "none"
                        THEN Some(Serializer_serialize(ser,
                                                       response.response[1]))
                        ELSE None,
         dispatched |-> try.dispatched]

Server_handler(ser, d, message) ==
    LET req_data == Serializer_deserialize(ser, message)
        parsed   == JSONRPC_parse_request(req_data.value[1])
        reply    == Dispatcher_dispatch(d, parsed.request[1])
        \* the try block: where it stopped, with what
        try == IF req_data.raised # "none"
               THEN [exception |-> Some(Raised(req_data.raised, <<>>)),
                     request |-> None, dispatched |-> FALSE]
               ELSE IF parsed.exception # None
               THEN [exception |-> parsed.exception, request |-> None,
                     dispatched |-> FALSE]
               ELSE [exception |-> reply.exception,
                     request |-> parsed.request, dispatched |-> TRUE]
        response == IF try.exception = None
                    THEN [raised |-> "none",
                          response |-> Some(JSONRPCSuccessResponse_to_data(
                                                try.request[1].uid,
                                                reply.reply[1]))]
                    ELSE JSONRPC_create_error_response(try.exception[1],
                                                       try.request)
    IN  [raised     |-> response.raised,
         response   |-> response.response,
         result     |-> IF response.raised = "none"
                        THEN Some(Serializer_serialize(ser,
                                                       response.response[1]))
                        ELSE None,
         dispatched |-> try.dispatched]

(***************************************************************************)
(* jsonsrpc.py: the responses of the signed codec.  A response object is   *)
(* a record [isError, unique_id, client, nonce, timestamp, sig, result,    *)
(* error, _jsonrpc_error_code]: isError tells a JSONSRPCErrorResponse from *)
(* a JSONSRPCSuccessResponse, the only one of the two with an `error`.     *)
(* The sig of a response is an optional string: None as respond leaves it  *)
(* (JSON null), Some(<<>>) for the empty string, Some(s) for a signature.  *)
(***************************************************************************)
JSONSRPC_ALLOWED_REPLY_KEYS ==
    {"id", "error", "result", "client", "nonce", "timestamp", "sig"}

\* the error classes of the signed codec: jsonrpc_error_code and message
JSONSRPCUnknownClientError ==
    [jsonrpc_error_code |-> -32001,
     message |->
      <<"U", "n", "k", "n", "o", "w", "n", " ", "c", "l", "i", "e", "n",
        "t">>]

JSONSRPCSignatureError ==
    [jsonrpc_error_code |-> -32002,
     message |->
      <<"S", "i", "g", "n", "a", "t", "u", "r", "e", " ", "e", "r", "r",
        "o", "r">>]

JSONSRPCTimestampError ==
    [jsonrpc_error_code |-> -32003,
     message |->
      <<"T", "i", "m", "e", "s", "t", "a", "m", "p", " ", "e", "r", "r",
        "o", "r">>]

JSONSRPCNonceError ==
    [jsonrpc_error_code |-> -32004,
     message |->
      <<"N", "o", "n", "c", "e", " ", "e", "r", "r", "o", "r">>]

\* JSONSRPCRequest.respond for a request with an id
JSONSRPCRequest_respond(req, result) ==
    [isError |-> FALSE, unique_id |-> req.id, client |-> req.client,
     nonce |-> None, timestamp |-> 0, sig |-> None, result |-> result,
     error |-> <<>>, _jsonrpc_error_code |-> 0]

\* the classes of jsonsrpc.py that _get_code_message_and_data reads the
\* code and the message of
JSONSRPC_InvalidRequestError ==
    [jsonrpc_error_code |-> -32600, message |-> InvalidRequestMessage]

JSONSRPC_MethodNotFoundError ==
    [jsonrpc_error_code |-> -32601, message |-> MethodNotFoundMessage]

JSONSRPC_InternalError ==
    [jsonrpc_error_code |-> -32603, message |-> InternalErrorMessage]

JSONSRPC_ServerError == [jsonrpc_error_code |-> -32000, message |-> <<>>]

\* an exception without jsonrpc_error_code, of the class named, raised with
\* the args given (each a string); the class "str" is a plain string
Exc(class, args) == [class |-> class, args |-> args]

\* str(error) of an exception with at most one argument: the argument, or ''
StrOf(args) == IF Len(args) = 0 THEN <<>> ELSE args[1]

\* _get_code_message_and_data(error): [code, msg, data].  An error with a
\* jsonrpc_error_code is an instance of the codec's classes made without
\* arguments, whose str() is the class's message and which has no data.
_get_code_message_and_data(error) ==
    IF "jsonrpc_error_code" \in DOMAIN error
    THEN [code |-> error.jsonrpc_error_code, msg |-> error.message,
          data |-> None]
    ELSE IF error.class = "str"
    THEN [code |-> -32000, msg |-> StrOf(error.args), data |-> None]
    ELSE IF error.class = "InvalidRequestError"
    THEN [code |-> JSONSRPC_InvalidRequestError.jsonrpc_error_code,
          msg |-> JSONSRPC_InvalidRequestError.message, data |-> None]
    ELSE IF error.class = "MethodNotFoundError"
    THEN [code |-> JSONSRPC_MethodNotFoundError.jsonrpc_error_code,
          msg |-> JSONSRPC_MethodNotFoundError.message, data |-> None]
    ELSE IF Len(error.args) = 2
    THEN [code |-> JSONSRPC_ServerError.jsonrpc_error_code,
          msg |-> error.args[1], data |-> Some(error.args[2])]
    ELSE [code |-> JSONSRPC_ServerError.jsonrpc_error_code,
          msg |-> StrOf(error.args), data |-> None]

\* JSONSRPCRequest.error_respond for a request with an id: the response
\* (its data attribute, which no check reads, is not kept)
JSONSRPCRequest_error_respond(req, error) ==
    LET g == _get_code_message_and_data(error)
    IN  [isError |-> TRUE, unique_id |-> req.id, client |-> req.client,
         nonce |-> None, timestamp |-> 0, sig |-> None, result |-> 0,
         error |-> g.msg, _jsonrpc_error_code |-> g.code]

\* str() of an optional integer: str(None) is "None"
str_opt(x) == IF x = None THEN <<"N", "o", "n", "e">> ELSE str(x[1])

\* json.dumps of the error entry of JSONSRPCErrorResponse._to_dict:
\* {"message": "...", "code": -32004}
json_dumps_error(message, code) ==
    <<"{", "\"", "m", "e", "s", "s", "a", "g", "e", "\"", ":", " ">>
    \o json_dumps_str(message) \o
    <<",", " ", "\"", "c", "o", "d", "e", "\"", ":", " ">>
    \o str(code) \o <<"}">>

\* assistant.py: the canonical string of a success response (the result is
\* an integer) and of an error response
_rep_msg(rep) ==
    rep.client \o str_opt(rep.unique_id) \o rep.nonce \o str(rep.timestamp)
    \o str(rep.result)

_error_rep_msg(rep) ==
    rep.client \o str_opt(rep.unique_id) \o rep.nonce \o str(rep.timestamp)
    \o json_dumps_error(rep.error, rep._jsonrpc_error_code)

\* (variant) every response is signed over the canonical string of a
\* success response
server_sign_response_ResultForm(response, nonce, t, key) ==
    LET r   == [response EXCEPT !.nonce = nonce, !.timestamp = t]
    IN  IF Falsy(key) THEN [r EXCEPT !.sig = Some(<<>>)]
        ELSE [r EXCEPT !.sig = Some(_sign(key[1], _rep_msg(r)))]

\* server_sign_response with server_get_response_nonce returning nonce, the
\* clock reading t and the key table giving key (None when the client has
\* none)
server_sign_response(response, nonce, t, key) ==
    LET r   == [response EXCEPT !.nonce = nonce, !.timestamp = t]
        msg == IF r.isError THEN _error_rep_msg(r) ELSE _rep_msg(r)
    IN  IF Falsy(key) THEN [r EXCEPT !.sig = Some(<<>>)]
        ELSE [r EXCEPT !.sig = Some(_sign(key[1], msg))]

\* the serialize of both response classes: json_dumps(self._to_dict()).encode()
JSONSRPCResponse_serialize(rep) ==
    JsonBytes(IF rep.isError
              THEN [id |-> rep.unique_id, client |-> rep.client,
                    nonce |-> rep.nonce, timestamp |-> rep.timestamp,
                    sig |-> rep.sig,
                    error |-> [message |-> rep.error,
                               code |-> rep._jsonrpc_error_code]]
              ELSE [id |-> rep.unique_id, result |-> rep.result,
                    client |-> rep.client, nonce |-> rep.nonce,
                    timestamp |-> rep.timestamp, sig |-> rep.sig])

\* JSONSRPCProtocol.parse_reply: [raised, response]
JSONSRPC_parse_reply(data) ==
    LET rep == data.data
        bad == [raised |-> "InvalidReplyError", response |-> None]
    IN  IF data.enc # "json" THEN bad
        ELSE IF \E k \in Keys(rep) : k \notin JSONSRPC_ALLOWED_REPLY_KEYS
        THEN bad
        ELSE IF "jsonrpc" \in Keys(rep) /\ rep.jsonrpc # JSON_RPC_VERSION
        THEN bad
        ELSE IF \E k \in {"id", "client", "nonce", "timestamp", "sig"} :
                   k \notin Keys(rep)
        THEN bad
        ELSE IF ("error" \in Keys(rep)) = ("result" \in Keys(rep)) THEN bad
        ELSE [raised |-> "none",
              response |-> Some(
                  [isError |-> "error" \in Keys(rep),
                   unique_id |-> rep.id, client |-> rep.client,
                   nonce |-> rep.nonce, timestamp |-> rep.timestamp,
                   sig |-> rep.sig,
                   result |-> IF "result" \in Keys(rep) THEN rep.result ELSE 0,
                   error |-> IF "error" \in Keys(rep) THEN rep.error.message
                             ELSE <<>>,
                   _jsonrpc_error_code |-> IF "error" \in Keys(rep)
                                           THEN rep.error.code ELSE 0])]

(***************************************************************************)
(* assistant.py: RPCClientAssistant checking a response.  _reply_nonces    *)
(* is a dict in insertion order: a sequence of <<nonce, time>> pairs.      *)
(***************************************************************************)
\* client_check_response_nonce: [raised, ok, store].  The loop deletes
\* from the dict it iterates over: at the first expired entry the entry is
\* deleted and the iterator's next step raises RuntimeError.
client_check_response_nonce(store, nonce, t) ==
    LET expired == {i \in 1..Len(store) : NonceExpired(t, store[i][2])}
    IN  IF expired # {}
        THEN LET first == CHOOSE i \in expired : \A j \in expired : i <= j
             IN  [raised |-> "RuntimeError", ok |-> FALSE,
                  store |-> SubSeq(store, 1, first - 1)
                            \o SubSeq(store, first + 1, Len(store))]
        ELSE IF \E i \in 1..Len(store) : store[i][1] = nonce
        THEN [raised |-> "none", ok |-> FALSE, store |-> store]
        ELSE [raised |-> "none", ok |-> TRUE,
              store |-> Append(store, <<nonce, t>>)]

\* (variant) a response that carries no signature is taken as one of a
\* peer that does not sign, and is not verified
client_check_response_SkipEmptySig(store, t, response, client, key) ==
    IF response.client # client
    THEN [raised |-> "RPCError: client mismatch", store |-> store,
          hmacs |-> 0]
    ELSE LET msg == IF response.isError THEN _error_rep_msg(response)
                    ELSE _rep_msg(response)
             nc  == client_check_response_nonce(store, response.nonce, t)
         IN  IF /\ response.sig \notin {None, Some(<<>>)}
                /\ ~compare_digest(response.sig[1], _sign(key, msg))
             THEN [raised |-> "RPCError: sig error", store |-> store,
                   hmacs |-> 1]
             ELSE IF nc.raised # "none"
             THEN [raised |-> nc.raised, store |-> nc.store, hmacs |-> 1]
             ELSE IF ~nc.ok
             THEN [raised |-> "RPCError: nonce error", store |-> nc.store,
                   hmacs |-> 1]
             ELSE IF TimestampStale(t, response.timestamp)
             THEN [raised |-> "RPCError: timestamp error",
                   store |-> nc.store, hmacs |-> 1]
             ELSE [raised |-> "none", store |-> nc.store, hmacs |-> 1]

\* (variant) the response's client is compared last, after the nonce has
\* been recorded
client_check_response_ClientLast(store, t, response, client, key) ==
    LET msg == IF response.isError THEN _error_rep_msg(response)
               ELSE _rep_msg(response)
        nc  == client_check_response_nonce(store, response.nonce, t)
    IN  IF response.sig = None
        THEN [raised |-> "TypeError", store |-> store, hmacs |-> 1]
        ELSE IF ~compare_digest(response.sig[1], _sign(key, msg))
        THEN [raised |-> "RPCError: sig error", store |-> store, hmacs |-> 1]
        ELSE IF nc.raised # "none"
        THEN [raised |-> nc.raised, store |-> nc.store, hmacs |-> 1]
        ELSE IF ~nc.ok
        THEN [raised |-> "RPCError: nonce error", store |-> nc.store,
              hmacs |-> 1]
        ELSE IF TimestampStale(t, response.timestamp)
        THEN [raised |-> "RPCError: timestamp error", store |-> nc.store,
              hmacs |-> 1]
        ELSE IF response.client # client
        THEN [raised |-> "RPCError: client mismatch", store |-> nc.store,
              hmacs |-> 1]
        ELSE [raised |-> "none", store |-> nc.store, hmacs |-> 1]

\* the tests of client_check_response on a response whose canonical string
\* is msg: [raised, store, hmacs], raised being "none" when the check
\* returns and hmacs the number of HMACs it computed.  _sign is evaluated
\* before compare_digest is called, and compare_digest raises TypeError
\* when the sig is None.
check_response_msg(store, t, response, client, key, msg) ==
    IF response.client # client
    THEN [raised |-> "RPCError: client mismatch", store |-> store,
          hmacs |-> 0]
    ELSE LET nc  == client_check_response_nonce(store, response.nonce, t)
         IN  IF response.sig = None
             THEN [raised |-> "TypeError", store |-> store, hmacs |-> 1]
             ELSE IF ~compare_digest(response.sig[1], _sign(key, msg))
             THEN [raised |-> "RPCError: sig error", store |-> store,
                   hmacs |-> 1]
             ELSE IF nc.raised # "none"
             THEN [raised |-> nc.raised, store |-> nc.store, hmacs |-> 1]
             ELSE IF ~nc.ok
             THEN [raised |-> "RPCError: nonce error", store |-> nc.store,
                   hmacs |-> 1]
             ELSE IF TimestampStale(t, response.timestamp)
             THEN [raised |-> "RPCError: timestamp error",
                   store |-> nc.store, hmacs |-> 1]
             ELSE [raised |-> "none", store |-> nc.store, hmacs |-> 1]

\* client_check_response for the assistant (client, key) at clock t, the
\* response being one of the codec's with an integer result
client_check_response(store, t, response, client, key) ==
    check_response_msg(store, t, response, client, key,
                       IF response.isError THEN _error_rep_msg(response)
                       ELSE _rep_msg(response))

(***************************************************************************)
(* client.py: RPCClient.call, for a client built with JSONSRPCProtocol and *)
(* the RPCClientAssistant of identity A.                                   *)
(***************************************************************************)
\* the call up to transport.send_message: create_request, then
\* client_sign_request, then req.serialize() and `not one_way`, the
\* arguments of send_message; [raised, counter, req, message, expect_reply]
RPCClient_call_send(counter, method, args, kwargs, one_way, nonce, t) ==
    LET c   == JSONSRPC_create_request(counter, method, args, kwargs, one_way)
        req == client_sign_request(c.request, nonce, t, ClientA,
                                   ClientKey[ClientA])
    IN  [raised |-> c.raised, counter |-> c.counter,
         req |-> IF c.raised = "none" THEN req ELSE NoRequest,
         message |-> IF c.raised = "none"
                     THEN Some(JSONSRPCRequest_serialize(req)) ELSE None,
         expect_reply |-> c.raised = "none" /\ ~one_way]

\* (variant) the reply is parsed and its result or error passed on, no
\* check being made
RPCClient_call_reply_Unchecked(store, t, one_way, reply) ==
    IF one_way
    THEN [outcome |-> "returned", result |-> None, store |-> store,
          parsed |-> FALSE, checked |-> FALSE]
    ELSE LET p == JSONSRPC_parse_reply(reply)
         IN  IF p.raised # "none"
             THEN [outcome |-> p.raised, result |-> None, store |-> store,
                   parsed |-> TRUE, checked |-> FALSE]
             ELSE IF p.response[1].isError
             THEN [outcome |-> "RPCError: remote", result |-> None,
                   store |-> store, parsed |-> TRUE, checked |-> FALSE]
             ELSE [outcome |-> "returned",
                   result |-> Some(p.response[1].result), store |-> store,
                   parsed |-> TRUE, checked |-> FALSE]

\* (variant) the reply to a one-way call is processed like any other
RPCClient_call_reply_OneWayProcessed(store, t, one_way, reply) ==
    LET p == JSONSRPC_parse_reply(reply)
        c == client_check_response(store, t, p.response[1], ClientA,
                                   ClientKey[ClientA])
    IN  IF p.raised # "none"
        THEN [outcome |-> p.raised, result |-> None, store |-> store,
              parsed |-> TRUE, checked |-> FALSE]
        ELSE IF c.raised # "none"
        THEN [outcome |-> c.raised, result |-> None, store |-> c.store,
              parsed |-> TRUE, checked |-> TRUE]
        ELSE IF p.response[1].isError
        THEN [outcome |-> "RPCError: remote", result |-> None,
              store |-> c.store, parsed |-> TRUE, checked |-> TRUE]
        ELSE [outcome |-> "returned",
              result |-> Some(p.response[1].result), store |-> c.store,
              parsed |-> TRUE, checked |-> TRUE]

\* the call from the reply on: for a one-way call nothing; otherwise
\* parse_reply, then client_check_response, then the RPCError for an error
\* response or the result; [outcome, result, store, parsed, checked]
RPCClient_call_reply(store, t, one_way, reply) ==
    IF one_way
    THEN [outcome |-> "returned", result |-> None, store |-> store,
          parsed |-> FALSE, checked |-> FALSE]
    ELSE LET p == JSONSRPC_parse_reply(reply)
             c == client_check_response(store, t, p.response[1], ClientA,
                                        ClientKey[ClientA])
         IN  IF p.raised # "none"
             THEN [outcome |-> p.raised, result |-> None, store |-> store,
                   parsed |-> TRUE, checked |-> FALSE]
             ELSE IF c.raised # "none"
             THEN [outcome |-> c.raised, result |-> None, store |-> c.store,
                   parsed |-> TRUE, checked |-> TRUE]
             ELSE IF p.response[1].isError
             THEN [outcome |-> "RPCError: remote", result |-> None,
                   store |-> c.store, parsed |-> TRUE, checked |-> TRUE]
             ELSE [outcome |-> "returned",
                   result |-> Some(p.response[1].result), store |-> c.store,
                   parsed |-> TRUE, checked |-> TRUE]

(***************************************************************************)
(* The client calling, the transport, the server handling.                 *)
(***************************************************************************)
\* how many calls the client makes
MaxCalls == 2

\* the (args, kwargs) of a call: those of Params, and both at once
CallParams == Params \cup {<<<<2, 3>>, <<<<<<"a">>, 1>>>>>>}

\* the nonces server_get_response_nonce may return
ReplyNonces == {<<"r">>, <<"s">>}

\* the replies a peer that signs its responses may give to req at clock t:
\* the result or an error, signed with the client's key at t or a window
\* and a second before; and the same signed with a forger's key, or made
\* out to the other identity
PeerReplies(req, t) ==
    LET bases  == {JSONSRPCRequest_respond(req, Value),
                   JSONSRPCRequest_error_respond(req, JSONSRPCNonceError)}
        bySigner == {server_sign_response(b, n, ts,
                                         server_get_client_key(req.client)) :
                       b \in bases, n \in ReplyNonces,
                       ts \in {t, t - (MAX_TIMESTAMP_DELTA + 1)}}
        forged == {server_sign_response(b, <<"r">>, t, Some(ForgedKey)) :
                       b \in bases}
        other  == {server_sign_response([b EXCEPT !.client = ClientC],
                                        <<"r">>, t,
                                        Some(ClientKey[ClientC])) :
                       b \in bases}
    IN  {JSONSRPCResponse_serialize(r) : r \in bySigner \cup forged \cup other}

InitCall == InitParts /\ InitDefaults /\ serializer \in Serializers

\* RPCClient.open
ClientOpen ==
    /\ closed
    /\ closed' = FALSE
    /\ UNCHANGED <<now, _id_counter, call, _reply_nonces, serializer, handled>>
    /\ UNCHANGED checkvars
    /\ UNCHANGED auxvars
    /\ UNCHANGED wirevars

\* RPCClient.close, between calls
ClientClose ==
    /\ ~closed
    /\ call.pc \in {"idle", "done"}
    /\ closed' = TRUE
    /\ UNCHANGED <<now, _id_counter, call, _reply_nonces, serializer, handled>>
    /\ UNCHANGED checkvars
    /\ UNCHANGED auxvars
    /\ UNCHANGED wirevars

\* RPCClient.call up to the await of transport.send_message
ClientCall ==
    /\ call.pc \in {"idle", "done"}
    /\ call.n < MaxCalls
    /\ IF closed
       THEN /\ call' = [NoCall EXCEPT !.pc = "done", !.n = call.n + 1,
                                      !.outcome = "RuntimeError"]
            /\ UNCHANGED _id_counter
       ELSE \E p \in CallParams, one_way \in BOOLEAN :
               LET s == RPCClient_call_send(_id_counter, <<"m">>, p[1], p[2],
                                            one_way, <<"n">>, now)
               IN  /\ _id_counter' = s.counter
                   /\ call' = IF s.raised # "none"
                              THEN [NoCall EXCEPT !.pc = "done",
                                                  !.n = call.n + 1,
                                                  !.outcome = s.raised]
                              ELSE [NoCall EXCEPT !.pc = "sent",
                                                  !.n = call.n + 1,
                                                  !.one_way = one_way,
                                                  !.req = s.req,
                                                  !.message = s.message,
                                                  !.expect_reply =
                                                      s.expect_reply]
    /\ handled' = NoHandled
    /\ UNCHANGED <<now, closed, _reply_nonces, serializer>>
    /\ UNCHANGED checkvars
    /\ UNCHANGED auxvars
    /\ UNCHANGED wirevars

\* what Server.handler does with the bytes `message` that serialize the
\* request req, the dispatcher behaving as d
Handle(req, message, d) ==
    LET h == Server_handler(serializer, d, message)
    IN  [message |-> Some(message), req |-> req,
         check |-> server_check_request(request_nonces, now, req).outcome,
         dispatched |-> h.dispatched, returns |-> (d = "returns"),
         raised |-> h.raised, response |-> h.response, result |-> h.result]

\* the local transport hands the call's message to Server.handler and
\* returns what handler returns to the caller; an exception handler raises
\* is raised in the caller
ServerHandler ==
    /\ call.pc = "sent"
    /\ \E d \in Dispatchers :
          LET h == Handle(call.req, call.message[1], d)
          IN  /\ handled' = h
              /\ call' = IF h.raised = "none"
                         THEN [call EXCEPT !.pc = "replied",
                                           !.reply = h.result,
                                           !.honest = TRUE]
                         ELSE [call EXCEPT !.pc = "done",
                                           !.outcome = h.raised]
    /\ UNCHANGED <<now, _id_counter, closed, _reply_nonces, serializer>>
    /\ UNCHANGED checkvars
    /\ UNCHANGED auxvars
    /\ UNCHANGED wirevars

\* the transport returns the reply of a peer that signs its responses
TransportReply ==
    /\ call.pc = "sent"
    /\ \E reply \in PeerReplies(call.req, now) :
          call' = [call EXCEPT !.pc = "replied", !.reply = Some(reply)]
    /\ UNCHANGED <<now, _id_counter, closed, _reply_nonces, serializer, handled>>
    /\ UNCHANGED checkvars
    /\ UNCHANGED auxvars
    /\ UNCHANGED wirevars

\* RPCClient.call from the reply on
ClientCallReply ==
    /\ call.pc = "replied"
    /\ LET r == RPCClient_call_reply(_reply_nonces, now, call.one_way,
                                     call.reply[1])
       IN  /\ call' = [call EXCEPT !.pc = "done", !.outcome = r.outcome,
                                   !.result = r.result,
                                   !.parsed = r.parsed,
                                   !.checked = r.checked]
           /\ _reply_nonces' = r.store
    /\ UNCHANGED <<now, _id_counter, closed, serializer, handled>>
    /\ UNCHANGED checkvars
    /\ UNCHANGED auxvars
    /\ UNCHANGED wirevars

\* calls from the client to the server, or to a peer that signs
NextCall ==
    \/ Tick \/ ClientOpen \/ ClientClose \/ ClientCall
    \/ ServerHandler \/ TransportReply \/ ClientCallReply

SpecCall == InitCall /\ [][NextCall]_vars

\* the requests without credentials a plain JSON-RPC peer sends: with an
\* id or without, with a list, a dict or no params
PlainRequests ==
    {NewRequest(<<"m">>, i, p[1], p[2]) : i \in {None, Some(1)}, p \in Params}

\* JSONRPCRequest.to_data of the plain request
JSONRPCRequest_to_data(req) ==
    LET keys == {"jsonrpc", "method"}
                \cup (IF req.args # <<>> \/ req.kwargs # <<>>
                      THEN {"params"} ELSE {})
                \cup (IF req.id # None THEN {"id"} ELSE {})
    IN  [k \in keys |->
            IF k = "jsonrpc" THEN JSON_RPC_VERSION
            ELSE IF k = "method" THEN req.method
            ELSE IF k = "id" THEN req.id
            ELSE IF req.kwargs # <<>> THEN <<"dict", req.kwargs>>
            ELSE <<"list", req.args>>]

\* bytes in the encoding named
Bytes(enc, d) == IF enc = "json" THEN JsonBytes(d) ELSE PickleBytes(d)

\* a signed request arrives at Server.handler, as JSON text or pickled
ServerHandleSigned ==
    /\ \E req \in ArrivingRequests(now), enc \in {"json", "pickle"},
          d \in Dispatchers :
          handled' = Handle(req,
                            Bytes(enc, JSONSRPCRequest_serialize(req).data), d)
    /\ UNCHANGED <<now, _id_counter, closed, call, _reply_nonces, serializer>>
    /\ UNCHANGED checkvars
    /\ UNCHANGED auxvars
    /\ UNCHANGED wirevars

\* a plain JSON-RPC request arrives at Server.handler
ServerHandlePlain ==
    /\ \E req \in PlainRequests, enc \in {"json", "pickle"},
          d \in Dispatchers :
          handled' = Handle(req, Bytes(enc, JSONRPCRequest_to_data(req)), d)
    /\ UNCHANGED <<now, _id_counter, closed, call, _reply_nonces, serializer>>
    /\ UNCHANGED checkvars
    /\ UNCHANGED auxvars
    /\ UNCHANGED wirevars

\* a version tag that is not JSON_RPC_VERSION
OtherVersion == <<"1", ".", "0">>

\* the dict d with the value v under the key k
With(d, k, v) == [j \in DOMAIN d \cup {k} |-> IF j = k THEN v ELSE d[j]]

\* the dict d without the key k
Without(d, k) == [j \in DOMAIN d \ {k} |-> d[j]]

\* what a peer that does not keep to the protocol makes of the dict of a
\* plain request: a key the protocol does not have, no version tag or
\* another version, an id or a method of another type, no method, params
\* that are a string
Malformed(d) ==
    {With(d, "extra", Some(1)), Without(d, "jsonrpc"),
     With(d, "jsonrpc", OtherVersion), Without(d, "method"),
     With(d, "method", <<"list", <<>>>>),
     With(d, "params", <<"str", <<"x">>>>)}
    \cup {With(d, "id", v) : v \in {<<"str", <<>>>>, <<"list", <<>>>>,
                                     <<"str", <<"x">>>>, <<"list", <<1>>>>,
                                     Some(0)}}

\* a malformed request arrives at Server.handler
ServerHandleMalformed ==
    /\ \E req \in PlainRequests, enc \in {"json", "pickle"},
          d \in Dispatchers :
          \E data \in Malformed(JSONRPCRequest_to_data(req)) :
             handled' = Handle(req, Bytes(enc, data), d)
    /\ UNCHANGED <<now, _id_counter, closed, call, _reply_nonces, serializer>>
    /\ UNCHANGED checkvars
    /\ UNCHANGED auxvars
    /\ UNCHANGED wirevars

\* the server handling what arrives
NextServer == ServerHandleSigned \/ ServerHandlePlain \/ ServerHandleMalformed

SpecServer == InitCall /\ [][NextServer]_vars

(***************************************************************************)
(* The client assistant checking the responses that arrive.                *)
(***************************************************************************)
\* the assistants a client may be constructed with: identity A with its
\* key, identity C (which the server has no key for) with its key, and
\* identity A with the empty key
Assistants ==
    {[client |-> ClientA, key |-> ClientKey[ClientA]],
     [client |-> ClientC, key |-> ClientKey[ClientC]],
     [client |-> ClientA, key |-> <<>>]}

\* the responses that can arrive at clock t.  Each answers a request with
\* id 1 of identity A or C with the result or with an error.  The server
\* signs it with what its key table has for the identity (nothing for C:
\* the sig is the empty string), at t or, for A, a window and a second
\* before; or
\* it is signed with the identity's own key, with the empty key, with a
\* forger's key; or it carries no sig at all (null).
ArrivingResponses(t) ==
    LET request(c) == [NewRequest(<<"m">>, Some(1), <<2, 3>>, <<>>)
                          EXCEPT !.client = c]
        bases(c)   == {JSONSRPCRequest_respond(request(c), Value),
                       JSONSRPCRequest_error_respond(request(c),
                                                     JSONSRPCNonceError)}
        signed_(c) == {server_sign_response(b, n, t, server_get_client_key(c)) :
                         b \in bases(c), n \in ReplyNonces}
        stale      == {server_sign_response(b, <<"r">>,
                                            t - (MAX_TIMESTAMP_DELTA + 1),
                                            server_get_client_key(ClientA)) :
                         b \in bases(ClientA)}
        byServer   == signed_(ClientA) \cup signed_(ClientC) \cup stale
        byKey      == {server_sign_response(b, <<"r">>, t, Some(k)) :
                         b \in bases(ClientC),
                         k \in {ClientKey[ClientC], ForgedKey}}
                      \cup
                      {server_sign_response(b, <<"r">>, t, Some(k)) :
                         b \in bases(ClientA), k \in {ForgedKey, <<>>}}
        unsigned   == {[server_sign_response(b, <<"r">>, t, None)
                           EXCEPT !.sig = None] :
                         b \in bases(ClientA) \cup bases(ClientC)}
    IN  byServer \cup byKey \cup unsigned

InitReply ==
    /\ InitParts
    /\ assistant \in Assistants
    /\ _counter = 0
    /\ created = NoCreated(0)
    /\ serializer = "JsonSerializer"

\* the nonce is in the store
InStore(store, nonce) == \E i \in 1..Len(store) : store[i][1] = nonce

\* one whole client_check_response call on response
CheckResponse(response, again, fresh) ==
    LET r == client_check_response(_reply_nonces, now, response,
                                   assistant.client, assistant.key)
    IN  /\ _reply_nonces' = r.store
        /\ rchk' = [seq |-> 1 - rchk.seq, response |-> response, at |-> now,
                    raised |-> r.raised, hmacs |-> r.hmacs,
                    again |-> again, fresh |-> fresh,
                    prevAt |-> IF again THEN rchk.at ELSE 0,
                    prev |-> IF again THEN rchk.raised ELSE "none"]

\* a response arrives and is checked
ClientCheckResponse ==
    /\ \E response \in ArrivingResponses(now) :
          CheckResponse(response, FALSE,
                        /\ ~InStore(_reply_nonces, response.nonce)
                        /\ ~TimestampStale(now, response.timestamp))
    /\ UNCHANGED <<now, _id_counter, closed, call, serializer, handled>>
    /\ UNCHANGED checkvars
    /\ UNCHANGED <<assistant, rnchk, _counter, created, inflight, checking>>
    /\ UNCHANGED wirevars

\* the response checked last is presented again, unchanged
ClientCheckReplay ==
    /\ rchk.response # NoResponse
    /\ CheckResponse(rchk.response, TRUE, ~rchk.again /\ rchk.fresh)
    /\ UNCHANGED <<now, _id_counter, closed, call, serializer, handled>>
    /\ UNCHANGED checkvars
    /\ UNCHANGED <<assistant, rnchk, _counter, created, inflight, checking>>
    /\ UNCHANGED wirevars

\* client_check_response_nonce called on its own
ClientCheckResponseNonce ==
    /\ \E n \in ReplyNonces :
          LET r == client_check_response_nonce(_reply_nonces, n, now)
          IN  /\ _reply_nonces' = r.store
              /\ rnchk' = [seq |-> 1 - rnchk.seq, nonce |-> n, at |-> now,
                           raised |-> r.raised, ok |-> r.ok]
    /\ UNCHANGED <<now, _id_counter, closed, call, serializer, handled>>
    /\ UNCHANGED checkvars
    /\ UNCHANGED <<assistant, rchk, _counter, created, inflight, checking>>
    /\ UNCHANGED wirevars

\* the client assistant checking the responses that arrive
NextReply == Tick \/ ClientCheckResponse \/ ClientCheckReplay

SpecReply == InitReply /\ [][NextReply]_vars

\* the client's nonce store on its own
NextReplyNonce == Tick \/ ClientCheckResponseNonce

SpecReplyNonce == Init /\ [][NextReplyNonce]_vars

(***************************************************************************)
(* protocols/jsonrpc.py: JSONRPCProtocol.__init__, _get_uid and            *)
(* create_request; and the codecs creating requests one after the other.   *)
(***************************************************************************)
\* (variant) the counter's value is returned, then the counter incremented
_get_uid_ReturnFirst(counter) == [counter |-> counter + 1, uid |-> counter]

\* _get_uid: the counter is incremented and its new value returned
_get_uid(counter) == [counter |-> counter + 1, uid |-> counter + 1]

\* (variant) a one-way request uses up an id of the counter
JSONRPC_create_request_OneWayCounts(counter, method, args, kwargs, one_way) ==
    LET u == _get_uid(counter)
    IN  IF args # <<>> /\ kwargs # <<>>
        THEN [raised |-> Some(JSONRPCInvalidRequestError),
              counter |-> counter, request |-> None]
        ELSE [raised |-> None, counter |-> u.counter,
              request |-> Some(JSONRPCRequest(
                                   method,
                                   IF one_way THEN None ELSE Some(u.uid),
                                   args, kwargs))]

\* create_request of the plain codec: [raised, counter, request].  The
\* JSONRPCInvalidRequestError it raises for both args and kwargs is the
\* binding in force, the plain BaseError.
JSONRPC_create_request(counter, method, args, kwargs, one_way) ==
    LET u == _get_uid(counter)
    IN  IF args # <<>> /\ kwargs # <<>>
        THEN [raised |-> Some(JSONRPCInvalidRequestError),
              counter |-> counter, request |-> None]
        ELSE [raised |-> None,
              counter |-> IF one_way THEN counter ELSE u.counter,
              request |-> Some(JSONRPCRequest(
                                   method,
                                   IF one_way THEN None ELSE Some(u.uid),
                                   args, kwargs))]

\* how many requests with an id each codec creates
MaxCreated == 3

\* the values JSONRPCProtocol is constructed with
InitialCounters == {0, 7}

InitCodec ==
    /\ InitParts
    /\ assistant = [client |-> ClientA, key |-> ClientKey[ClientA]]
    /\ _counter \in InitialCounters
    /\ created = NoCreated(_counter)
    /\ serializer = "JsonSerializer"

\* create_request on the plain codec
JSONRPCCreateRequest ==
    /\ \E p \in CallParams, one_way \in BOOLEAN :
          LET c    == JSONRPC_create_request(_counter, <<"m">>, p[1], p[2],
                                             one_way)
              both == p[1] # <<>> /\ p[2] # <<>>
              uid  == IF c.request # None THEN c.request[1].uid ELSE None
          IN  /\ (one_way \/ both \/ Len(created.ids) < MaxCreated)
              /\ _counter' = c.counter
              /\ created' = [seq |-> 1 - created.seq,
                             codec |-> "JSONRPCProtocol",
                             one_way |-> one_way, both |-> both,
                             raised |-> c.raised, uid |-> uid,
                             initial |-> created.initial,
                             ids |-> IF c.raised = None /\ ~one_way
                                     THEN created.ids \o uid
                                     ELSE created.ids]
    /\ UNCHANGED <<now, _id_counter>>
    /\ UNCHANGED callvars
    /\ UNCHANGED checkvars
    /\ UNCHANGED <<assistant, rchk, rnchk, inflight, checking>>
    /\ UNCHANGED wirevars

\* create_request on the signed codec
JSONSRPCCreateRequest ==
    /\ \E p \in CallParams, one_way \in BOOLEAN :
          LET c    == JSONSRPC_create_request(_id_counter, <<"m">>, p[1], p[2],
                                              one_way)
              both == p[1] # <<>> /\ p[2] # <<>>
          IN  /\ (one_way \/ both \/ _id_counter < MaxCreated)
              /\ _id_counter' = c.counter
              /\ created' = [seq |-> 1 - created.seq,
                             codec |-> "JSONSRPCProtocol",
                             one_way |-> one_way, both |-> both,
                             raised |-> IF c.raised = "none" THEN None
                                        ELSE Some(Raised(c.raised, <<>>)),
                             uid |-> c.request.id,
                             initial |-> created.initial,
                             ids |-> created.ids]
    /\ UNCHANGED <<now, _counter>>
    /\ UNCHANGED callvars
    /\ UNCHANGED checkvars
    /\ UNCHANGED <<assistant, rchk, rnchk, inflight, checking>>
    /\ UNCHANGED wirevars

\* the codecs creating requests
NextCodec == JSONRPCCreateRequest \/ JSONSRPCCreateRequest

SpecCodec == InitCodec /\ [][NextCodec]_vars

(***************************************************************************)
(* client.py: several RPCClient.call coroutines on one client, run by one  *)
(* event loop.  A coroutine runs without interruption from one await to    *)
(* the next; it may be suspended at the awaits of client_sign_request      *)
(* (the nonce, the identity, the key) and at the await of                  *)
(* transport.send_message.  inflight[i] is the i-th call started: where    *)
(* it is suspended, its request object and its outcome.                    *)
(***************************************************************************)
\* how many calls are started
MaxInflight == 3

\* a call that has just been started
StartedCall(pc, one_way, req, outcome) ==
    [pc |-> pc, one_way |-> one_way, req |-> req, outcome |-> outcome]

\* call() from its start to its first await: the closed test and
\* create_request, which has no await in it
CallStart ==
    /\ Len(inflight) < MaxInflight
    /\ IF closed
       THEN /\ inflight' = Append(inflight,
                                  StartedCall("done", FALSE, NoRequest,
                                              "RuntimeError"))
            /\ UNCHANGED _id_counter
       ELSE \E p \in {<<<<2, 3>>, <<>>>>, <<<<2, 3>>, <<<<<<"a">>, 1>>>>>>},
               one_way \in BOOLEAN :
               LET c == JSONSRPC_create_request(_id_counter, <<"m">>, p[1],
                                                p[2], one_way)
               IN  /\ _id_counter' = c.counter
                   /\ inflight' =
                         Append(inflight,
                                IF c.raised # "none"
                                THEN StartedCall("done", one_way, NoRequest,
                                                 c.raised)
                                ELSE StartedCall("nonce", one_way, c.request,
                                                 "none"))
    /\ UNCHANGED <<now, closed, call, _reply_nonces, serializer, handled>>
    /\ UNCHANGED checkvars
    /\ UNCHANGED <<assistant, rchk, rnchk, _counter, created, checking>>
    /\ UNCHANGED wirevars

\* the reply of a peer that signs its responses to the request req
SignedReply(req, nonce, t) ==
    JSONSRPCResponse_serialize(
        server_sign_response(JSONSRPCRequest_respond(req, Value), nonce, t,
                             server_get_client_key(req.client)))

\* a suspended call is resumed and runs to its next await, or to its end
CallResume ==
    /\ \E i \in 1..Len(inflight) :
          LET c == inflight[i]
          IN  \/ /\ c.pc = "nonce"
                 \* client_get_request_nonce has returned; the timestamp
                 \* is read; client_get_client is awaited
                 /\ inflight' = [inflight EXCEPT
                                   ![i].req.nonce = <<"n">>,
                                   ![i].req.timestamp = now,
                                   ![i].pc = "client"]
                 /\ UNCHANGED _reply_nonces
              \/ /\ c.pc = "client"
                 \* client_get_client has returned; client_get_key is
                 \* awaited
                 /\ inflight' = [inflight EXCEPT
                                   ![i].req.client = assistant.client,
                                   ![i].pc = "key"]
                 /\ UNCHANGED _reply_nonces
              \/ /\ c.pc = "key"
                 \* client_get_key has returned; the request is signed,
                 \* serialized and handed to the transport
                 /\ inflight' = [inflight EXCEPT
                                   ![i].req = client_sign_request(
                                                 c.req, c.req.nonce,
                                                 c.req.timestamp,
                                                 assistant.client,
                                                 assistant.key),
                                   ![i].pc = "send"]
                 /\ UNCHANGED _reply_nonces
              \/ /\ c.pc = "send"
                 \* transport.send_message has returned; the rest of call
                 /\ \E n \in ReplyNonces :
                       LET r == RPCClient_call_reply(
                                    _reply_nonces, now, c.one_way,
                                    SignedReply(c.req, n, now))
                       IN  /\ inflight' = [inflight EXCEPT
                                             ![i].pc = "done",
                                             ![i].outcome = r.outcome]
                           /\ _reply_nonces' = r.store
    /\ UNCHANGED <<now, _id_counter, closed, call, serializer, handled>>
    /\ UNCHANGED checkvars
    /\ UNCHANGED <<assistant, rchk, rnchk, _counter, created, checking>>
    /\ UNCHANGED wirevars

\* calls in flight on one client
NextInflight == ClientOpen \/ CallStart \/ CallResume

SpecInflight == Init /\ [][NextInflight]_vars

(***************************************************************************)
(* assistant.py: several server_check_request coroutines on one server     *)
(* assistant.  A check may be suspended at the await of                    *)
(* server_get_client_key and at the await of server_check_request_nonce,   *)
(* before the awaited method runs and before its value is used; neither    *)
(* method has an await in it.  checking[i] is the i-th check started:      *)
(* where it is suspended, its request, the key it was given, what the      *)
(* nonce check returned and at what clock value, and its outcome.          *)
(***************************************************************************)
\* how many checks are started
MaxCheckers == 2

\* the requests checked concurrently: one request of client A as A signed
\* it at clock t, the same with a forger's signature, and one of the
\* unregistered client C; all with the nonce "n"
CheckedRequests(t) ==
    {client_sign_request(NewRequest(<<"m">>, Some(1), <<2, 3>>, <<>>),
                         <<"n">>, t, ClientA, k) :
        k \in {ClientKey[ClientA], ForgedKey}}
    \cup
    {client_sign_request(NewRequest(<<"m">>, Some(1), <<2, 3>>, <<>>),
                         <<"n">>, t, ClientC, ClientKey[ClientC])}

\* server_check_request is called: it awaits server_get_client_key
CheckStart ==
    /\ Len(checking) < MaxCheckers
    /\ \E req \in CheckedRequests(now) :
          checking' = Append(checking,
                             [pc |-> "key", req |-> req, key |-> None,
                              ok |-> FALSE, at |-> 0, outcome |-> "none"])
    /\ UNCHANGED <<now, _id_counter, request_nonces, chk, nchk, signed,
                   delivered>>
    /\ UNCHANGED callvars
    /\ UNCHANGED <<assistant, rchk, rnchk, _counter, created, inflight>>
    /\ UNCHANGED wirevars

\* a suspended check is resumed and runs to its next suspension, or to its
\* end
CheckResume ==
    /\ \E i \in 1..Len(checking) :
          LET c == checking[i]
          IN  \/ /\ c.pc = "key"
                 \* the key lookup; then the test of the key and of the
                 \* timestamp
                 /\ LET key == server_get_client_key(c.req.client)
                    IN  checking' =
                          [checking EXCEPT
                             ![i].key = key,
                             ![i].pc = IF Falsy(key)
                                          \/ TimestampStale(now,
                                                            c.req.timestamp)
                                       THEN "done" ELSE "nonce",
                             ![i].outcome =
                                 IF Falsy(key) THEN "UnknownClientError"
                                 ELSE IF TimestampStale(now, c.req.timestamp)
                                 THEN "TimestampError" ELSE "none"]
                 /\ UNCHANGED request_nonces
              \/ /\ c.pc = "nonce"
                 \* server_check_request_nonce runs
                 /\ LET nc == server_check_request_nonce(
                                  request_nonces, c.req.client, c.req.nonce,
                                  now)
                    IN  /\ request_nonces' = nc.store
                        /\ checking' = [checking EXCEPT ![i].ok = nc.ok,
                                                        ![i].at = now,
                                                        ![i].pc = "sig"]
              \/ /\ c.pc = "sig"
                 \* the value of the nonce check is used, and the
                 \* signature compared
                 /\ checking' =
                      [checking EXCEPT
                         ![i].pc = "done",
                         ![i].outcome =
                             IF ~c.ok THEN "NonceError"
                             ELSE IF ~compare_digest(
                                         _sign(c.key[1], _req_msg(c.req)),
                                         c.req.sig)
                             THEN "SignatureError" ELSE "ok"]
                 /\ UNCHANGED request_nonces
    /\ UNCHANGED <<now, _id_counter, chk, nchk, signed, delivered>>
    /\ UNCHANGED callvars
    /\ UNCHANGED <<assistant, rchk, rnchk, _counter, created, inflight>>
    /\ UNCHANGED wirevars

\* checks running concurrently on one server assistant
NextChecking == Tick \/ CheckStart \/ CheckResume

SpecChecking == Init /\ [][NextChecking]_vars

(***************************************************************************)
(* protocols/jsonrpc.py, protocols/pyrpc.py and protocols/jsonsrpc.py: the *)
(* operations of the codecs applied to values of their own.                *)
(***************************************************************************)
\* the values the codec of a round trip was constructed with
WireCounters == {0, 1, 7}

\* create_request(method, args, kwargs, one_way=False) on a JSONRPCProtocol
\* constructed with counter, to_data() of the request it returns, and
\* parse_request of that dict
JSONRPCRoundTrip ==
    /\ \E method \in Methods, p \in Params, counter \in WireCounters :
          LET c      == JSONRPC_create_request(counter, method, p[1], p[2],
                                               FALSE)
              r      == c.request[1]
              data   == JSONRPCRequest_to_data(
                            NewRequest(r.method, r.uid, r.args, r.kwargs))
              parsed == JSONRPC_parse_request(data)
          IN  wire' = [op |-> "round trip", request |-> r, data |-> data,
                       exception |-> parsed.exception,
                       parsed |-> parsed.request]
    /\ UNCHANGED <<now, _id_counter, lifecycle>>
    /\ UNCHANGED callvars
    /\ UNCHANGED checkvars
    /\ UNCHANGED auxvars

\* exceptions.RpcError(code, message, data)
RpcError(code, message, data) ==
    [class |-> "RpcError", rpc |-> TRUE, code |-> Some(code),
     message |-> message, data |-> data]

\* JSONRPCServerError(code), the code being in the server error range
JSONRPCServerErrorWith(code) == [JSONRPCServerError EXCEPT !.code = Some(code)]

\* the classes of exceptions.py that name a kind of failure
FailureKinds ==
    {"ParseError", "InvalidRequestError", "MethodNotFoundError",
     "InvalidParamsError", "InternalError", "ServerError"}

\* the texts an exception is raised with
ExceptionTexts == {<<>>, <<"b", "a", "d">>, <<"k", "e", "y">>}

\* a code of the server error range that is not the default, and a code
\* outside every reserved range
AppCode == MIN_VALID_SERVER_ERROR_CODE + 49
PlainCode == 7

\* the exceptions create_error_response is given: an instance of a class of
\* exceptions.py or of a class that is none of them, with some text; and
\* the instances of RpcError, which carry code, message and data
GivenExceptions ==
    {Raised(c, t) : c \in FailureKinds \cup {"ValueError"},
                    t \in ExceptionTexts}
    \cup {JSONRPCParseError, JSONRPCMethodNotFoundError,
          JSONRPCInvalidParamsError(InvalidParamsMessage, None),
          JSONRPCInvalidParamsError(InvalidParamsMessage,
                                    Some(<<"b", "a", "d">>)),
          JSONRPCInternalError, JSONRPCServerError,
          JSONRPCServerErrorWith(AppCode),
          RpcError(AppCode, <<"a", "p", "p">>, Some(<<"d">>)),
          RpcError(AppCode, <<"a", "p", "p">>, None),
          RpcError(PlainCode, <<"a", "p", "p">>, None)}

\* the request create_error_response is given: none, one with an id, one
\* without
GivenRequests ==
    {None, Some(JSONRPCRequest(<<"m">>, Some(1), <<2, 3>>, <<>>)),
     Some(JSONRPCRequest(<<"m">>, Some(8), <<>>, <<>>)),
     Some(JSONRPCRequest(<<"m">>, None, <<2, 3>>, <<>>))}

\* JSONRPCProtocol.create_error_response(exception, request)
JSONRPCCreateErrorResponse ==
    /\ \E e \in GivenExceptions, r \in GivenRequests :
          LET c == JSONRPC_create_error_response(e, r)
          IN  wire' = [op |-> "create_error_response", exception |-> e,
                       request |-> r, raised |-> c.raised,
                       response |-> c.response]
    /\ UNCHANGED <<now, _id_counter, lifecycle>>
    /\ UNCHANGED callvars
    /\ UNCHANGED checkvars
    /\ UNCHANGED auxvars

(***************************************************************************)
(* protocols/pyrpc.py: an exception of the codec is a Protocol.Error       *)
(* (protocols/__init__.py), which has code, message and data.              *)
(***************************************************************************)
PY_RPC_VERSION == <<"1", ".", "0">>

\* Protocol.Error(code, message, data) and its subclasses in PyRPCProtocol
PyRPCError(class, code, message, data) ==
    [class |-> class, rpc |-> FALSE, code |-> Some(code),
     message |-> message, data |-> data]

\* PyRPCProtocol.InternalError()
PyRPCInternalError ==
    PyRPCError("InternalError", INTERNAL_ERROR_CODE, InternalErrorMessage,
               None)

\* isinstance(exc, self.Error)
IsProtocolError(exc) == ~exc.rpc /\ exc.code # None

\* PyRPCProtocol.create_error_response: the response, as the dict its
\* serialize hands to the serializer.  Both arms of the conditional
\* expression construct InternalError.
PyRPC_create_error_response(exc, request) ==
    LET e   == IF IsProtocolError(exc) THEN PyRPCInternalError
               ELSE PyRPCInternalError
        uid == IF request # None THEN request[1].uid ELSE None
    IN  [pyrpc |-> PY_RPC_VERSION, id |-> uid,
         error |-> [code |-> e.code[1], message |-> e.message,
                    data |-> e.data]]

\* the exceptions PyRPCProtocol.create_error_response is given: those the
\* codec raises, an application's Protocol.Error, and others
PyRPCGivenExceptions ==
    {PyRPCError("ParseError", PARSE_ERROR_CODE, ParseErrorMessage, None),
     PyRPCError("MethodNotFoundError", METHOD_NOT_FOUND_CODE,
                MethodNotFoundMessage, None),
     PyRPCError("InvalidParamsError", INVALID_PARAMS_CODE,
                <<"b", "a", "d">>, None),
     PyRPCInternalError,
     PyRPCError("Error", AppCode, <<"a", "p", "p">>, Some(<<"d">>))}
    \cup {Raised("ValueError", t) : t \in ExceptionTexts}

\* PyRPCProtocol.create_error_response(exc, request)
PyRPCCreateErrorResponse ==
    /\ \E e \in PyRPCGivenExceptions, r \in GivenRequests :
          wire' = [op |-> "PyRPC create_error_response", exception |-> e,
                   request |-> r, raised |-> "none",
                   response |-> Some(PyRPC_create_error_response(e, r))]
    /\ UNCHANGED <<now, _id_counter, lifecycle>>
    /\ UNCHANGED callvars
    /\ UNCHANGED checkvars
    /\ UNCHANGED auxvars

(***************************************************************************)
(* protocols/jsonrpc.py: parse_response.  In a reply the value under       *)
(* `error`, and the values under `code` and `message` in it, are pairs of  *)
(* the type's tag and the content ("int", "str", "dict", "None"); the id   *)
(* is as in a request.                                                     *)
(***************************************************************************)
JSONRPC_ALLOWED_REPLY_KEYS == {"id", "jsonrpc", "error", "result"}

\* dict.get(key): the value, or None's pair when the key is absent
Get(d, key) == IF key \in DOMAIN d THEN d[key] ELSE <<"None", <<>>>>

\* isinstance(uid, (int, str)) of the value under `id`
IsIntOrStr(uid) == Len(uid) = 1 \/ (Len(uid) = 2 /\ uid[1] = "str")

\* the error response parse_response returns for the error dict e
ParsedErrorResponse(uid, e) ==
    [isError |-> TRUE, uid |-> uid, code |-> Get(e, "code")[2],
     message |-> Get(e, "message")[2], data |-> Get(e, "data")]

\* the success response parse_response returns
ParsedSuccessResponse(uid, result) ==
    [isError |-> FALSE, uid |-> uid, result |-> result]

\* (variant) a reply with both result and error is taken for a success, one
\* with neither for a success with result None
JSONRPC_parse_response_ResultWins(data) ==
    LET bad == [raised |-> "ServerReplyError", response |-> None]
        uid == IF "id" \in Keys(data) THEN data.id ELSE None
    IN  IF \E k \in Keys(data) : k \notin JSONRPC_ALLOWED_REPLY_KEYS THEN bad
        ELSE IF "jsonrpc" \notin Keys(data) \/ data.jsonrpc # JSON_RPC_VERSION
        THEN bad
        ELSE IF Truthy(uid) /\ ~IsIntOrStr(uid) THEN bad
        ELSE IF "result" \in Keys(data) \/ "error" \notin Keys(data)
        THEN [raised |-> "none",
              response |-> Some(ParsedSuccessResponse(
                                    uid, Get(data, "result")))]
        ELSE IF data.error[1] # "dict"
        THEN [raised |-> "AttributeError", response |-> None]
        ELSE IF Get(data.error[2], "code")[1] # "int" THEN bad
        ELSE IF Get(data.error[2], "message")[1] # "str" THEN bad
        ELSE [raised |-> "none",
              response |-> Some(ParsedErrorResponse(uid, data.error[2]))]

\* parse_response on a dict: [raised, response].  error.get on an error
\* that is no dict raises AttributeError.
JSONRPC_parse_response(data) ==
    LET bad == [raised |-> "ServerReplyError", response |-> None]
        uid == IF "id" \in Keys(data) THEN data.id ELSE None
    IN  IF \E k \in Keys(data) : k \notin JSONRPC_ALLOWED_REPLY_KEYS THEN bad
        ELSE IF "jsonrpc" \notin Keys(data) \/ data.jsonrpc # JSON_RPC_VERSION
        THEN bad
        ELSE IF Truthy(uid) /\ ~IsIntOrStr(uid) THEN bad
        ELSE IF ("error" \in Keys(data)) = ("result" \in Keys(data)) THEN bad
        ELSE IF "result" \in Keys(data)
        THEN [raised |-> "none",
              response |-> Some(ParsedSuccessResponse(uid, data.result))]
        ELSE IF data.error[1] # "dict"
        THEN [raised |-> "AttributeError", response |-> None]
        ELSE IF Get(data.error[2], "code")[1] # "int" THEN bad
        ELSE IF Get(data.error[2], "message")[1] # "str" THEN bad
        ELSE [raised |-> "none",
              response |-> Some(ParsedErrorResponse(uid, data.error[2]))]

\* the values a reply may have under `error`: an error dict as to_data
\* writes it, one with data, one whose code is a string, one without
\* message, one whose message is an integer, and null
ReplyErrors ==
    LET code    == <<"int", METHOD_NOT_FOUND_CODE>>
        message == <<"str", MethodNotFoundMessage>>
    IN  {<<"dict", [code |-> code, message |-> message]>>,
         <<"dict", [code |-> code, message |-> message,
                    data |-> <<"str", <<"d">>>>]>>,
         <<"dict", [code |-> <<"str", <<"x">>>>, message |-> message]>>,
         <<"dict", [code |-> code]>>,
         <<"dict", [code |-> code, message |-> <<"int", 1>>]>>,
         <<"None", <<>>>>}

\* the ids of a reply
ReplyIds ==
    {None, Some(1), Some(0), <<"str", <<"x">>>>, <<"str", <<>>>>,
     <<"list", <<1>>>>, <<"list", <<>>>>}

\* the replies a server may send: with result, error, both or neither, any
\* of the ids, the version tag right, wrong or missing, and possibly a key
\* the protocol does not have
Replies ==
    LET entries == {<<result, error, version, extra>> :
                       result \in {None, Some(Value)},
                       error \in {None} \cup {Some(e) : e \in ReplyErrors},
                       version \in {None, Some(JSON_RPC_VERSION),
                                    Some(OtherVersion)},
                       extra \in BOOLEAN}
        keys(n)  == {"id"}
                    \cup (IF n[1] # None THEN {"result"} ELSE {})
                    \cup (IF n[2] # None THEN {"error"} ELSE {})
                    \cup (IF n[3] # None THEN {"jsonrpc"} ELSE {})
                    \cup (IF n[4] THEN {"extra"} ELSE {})
    IN  {[k \in keys(n) |->
             IF k = "id" THEN id
             ELSE IF k = "result" THEN n[1][1]
             ELSE IF k = "error" THEN n[2][1]
             ELSE IF k = "jsonrpc" THEN n[3][1]
             ELSE Some(1)] : n \in entries, id \in ReplyIds}
        \cup {Without(r, "id") :
                r \in {[jsonrpc |-> JSON_RPC_VERSION, id |-> None,
                        result |-> Value]}}

\* JSONRPCProtocol.parse_response(data)
JSONRPCParseResponse ==
    /\ \E data \in Replies :
          LET p == JSONRPC_parse_response(data)
          IN  wire' = [op |-> "parse_response", data |-> data,
                       raised |-> p.raised, response |-> p.response]
    /\ UNCHANGED <<now, _id_counter, lifecycle>>
    /\ UNCHANGED callvars
    /\ UNCHANGED checkvars
    /\ UNCHANGED auxvars

\* JSONRPCProtocol.create_response(request, reply), as the to_data dict of
\* the response it returns
JSONRPC_create_response(request, reply) ==
    JSONRPCSuccessResponse_to_data(request.uid, reply)

\* JSONRPCProtocol.create_response(request, reply)
JSONRPCCreateResponse ==
    /\ \E r \in GivenRequests \ {None}, reply \in {None, Some(Value)} :
          wire' = [op |-> "create_response", request |-> r, reply |-> reply,
                   response |-> JSONRPC_create_response(r[1], reply)]
    /\ UNCHANGED <<now, _id_counter, lifecycle>>
    /\ UNCHANGED callvars
    /\ UNCHANGED checkvars
    /\ UNCHANGED auxvars

\* the dicts parse_request is given: those of the plain requests, and what
\* a peer that does not keep to the protocol makes of them
RequestDicts ==
    LET good == {JSONRPCRequest_to_data(req) : req \in PlainRequests}
    IN  good \cup UNION {Malformed(d) : d \in good}

\* JSONRPCProtocol.parse_request(data)
JSONRPCParseRequest ==
    /\ \E data \in RequestDicts :
          LET p == JSONRPC_parse_request(data)
          IN  wire' = [op |-> "parse_request", data |-> data,
                       exception |-> p.exception, request |-> p.request]
    /\ UNCHANGED <<now, _id_counter, lifecycle>>
    /\ UNCHANGED callvars
    /\ UNCHANGED checkvars
    /\ UNCHANGED auxvars

(***************************************************************************)
(* protocols/jsonsrpc.py: error_respond on what the dispatcher raised.     *)
(***************************************************************************)
\* the exceptions a method may raise: of a class the codec knows or of
\* another, with no argument, with a text, or with a text and data
DispatcherExceptions ==
    {Exc(c, a) : c \in {"InvalidRequestError", "MethodNotFoundError",
                        "ValueError", "KeyError"},
                 a \in {<<>>} \cup {<<t>> : t \in ExceptionTexts}
                       \cup {<<t, <<"d">>>> : t \in ExceptionTexts}}
    \cup {Exc("str", <<t>>) : t \in ExceptionTexts}

\* two exceptions of one class with as many arguments, which differ at most
\* in their text
SameButText(e1, e2) ==
    /\ e1.class = e2.class
    /\ Len(e1.args) = Len(e2.args)
    /\ Len(e1.args) = 2 => e1.args[2] = e2.args[2]

\* the requests a method is dispatched for
RespondedRequests ==
    {client_sign_request(NewRequest(<<"m">>, i, <<2, 3>>, <<>>), <<"n">>,
                         Epoch, ClientA, ClientKey[ClientA]) :
        i \in {None, Some(1), Some(2)}}

\* JSONSRPCRequest.error_respond(error), None for a request without id
error_respond(req, error) ==
    IF req.id = None THEN None
    ELSE Some(JSONSRPCRequest_error_respond(req, error))

\* two runs of error_respond on one request, for exceptions that differ at
\* most in their text
JSONSRPCErrorRespond ==
    /\ \E req \in RespondedRequests, e1, e2 \in DispatcherExceptions :
          /\ SameButText(e1, e2)
          /\ wire' = [op |-> "error_respond", request |-> req,
                      errors |-> <<e1, e2>>,
                      responses |-> <<error_respond(req, e1),
                                      error_respond(req, e2)>>]
    /\ UNCHANGED <<now, _id_counter, lifecycle>>
    /\ UNCHANGED callvars
    /\ UNCHANGED checkvars
    /\ UNCHANGED auxvars

(***************************************************************************)
(* client.py: open, close and call on one client.  open and close await    *)
(* the transport before they assign self.closed, and calls may be made     *)
(* while they wait.                                                        *)
(***************************************************************************)
\* how many open and close calls are made
MaxLifecycle == 3

\* (variant) call does not look at self.closed
RPCClient_call_start_Unguarded(isClosed, counter, method, args, kwargs, one_way, nonce, t) ==
    RPCClient_call_send(counter, method, args, kwargs, one_way, nonce, t)

\* RPCClient.call up to transport.send_message, on a client whose closed
\* flag is isClosed: RuntimeError('Client is closed') before anything else
RPCClient_call_start(isClosed, counter, method, args, kwargs, one_way, nonce, t) ==
    IF isClosed
    THEN [raised |-> "RuntimeError", counter |-> counter, req |-> NoRequest,
          message |-> None, expect_reply |-> FALSE]
    ELSE RPCClient_call_send(counter, method, args, kwargs, one_way, nonce, t)

\* open() is called: it awaits transport.open()
OpenStart ==
    /\ lifecycle.n < MaxLifecycle
    /\ ~lifecycle.opening
    /\ lifecycle' = [lifecycle EXCEPT !.opening = TRUE, !.n = @ + 1]
    /\ UNCHANGED <<now, _id_counter>>
    /\ UNCHANGED callvars
    /\ UNCHANGED checkvars
    /\ UNCHANGED auxvars
    /\ UNCHANGED wire

\* transport.open() returns and open() completes, or transport.open()
\* raises and open() with it
OpenDone ==
    /\ lifecycle.opening
    /\ \/ /\ closed' = FALSE
          /\ lifecycle' = [lifecycle EXCEPT !.opening = FALSE,
                                            !.last = "open"]
       \/ /\ lifecycle' = [lifecycle EXCEPT !.opening = FALSE]
          /\ UNCHANGED closed
    /\ UNCHANGED <<now, _id_counter, call, _reply_nonces, serializer, handled>>
    /\ UNCHANGED checkvars
    /\ UNCHANGED auxvars
    /\ UNCHANGED wire

\* close() is called: it awaits transport.close()
CloseStart ==
    /\ lifecycle.n < MaxLifecycle
    /\ ~lifecycle.closing
    /\ lifecycle' = [lifecycle EXCEPT !.closing = TRUE, !.n = @ + 1]
    /\ UNCHANGED <<now, _id_counter>>
    /\ UNCHANGED callvars
    /\ UNCHANGED checkvars
    /\ UNCHANGED auxvars
    /\ UNCHANGED wire

\* transport.close() returns and close() completes, or it raises
CloseDone ==
    /\ lifecycle.closing
    /\ \/ /\ closed' = TRUE
          /\ lifecycle' = [lifecycle EXCEPT !.closing = FALSE,
                                            !.last = "close"]
       \/ /\ lifecycle' = [lifecycle EXCEPT !.closing = FALSE]
          /\ UNCHANGED closed
    /\ UNCHANGED <<now, _id_counter, call, _reply_nonces, serializer, handled>>
    /\ UNCHANGED checkvars
    /\ UNCHANGED auxvars
    /\ UNCHANGED wire

\* call() is made and runs up to the await of transport.send_message
LifecycleCall ==
    /\ call.n < MaxCalls
    /\ \E p \in CallParams, one_way \in BOOLEAN :
          LET s == RPCClient_call_start(closed, _id_counter, <<"m">>, p[1],
                                        p[2], one_way, <<"n">>, now)
          IN  /\ _id_counter' = s.counter
              /\ call' = IF s.raised # "none"
                         THEN [NoCall EXCEPT !.pc = "done",
                                             !.n = call.n + 1,
                                             !.one_way = one_way,
                                             !.outcome = s.raised]
                         ELSE [NoCall EXCEPT !.pc = "sent",
                                             !.n = call.n + 1,
                                             !.one_way = one_way,
                                             !.req = s.req,
                                             !.message = s.message,
                                             !.expect_reply = s.expect_reply]
    /\ UNCHANGED <<now, closed, _reply_nonces, serializer, handled>>
    /\ UNCHANGED checkvars
    /\ UNCHANGED auxvars
    /\ UNCHANGED wirevars

\* the client opened, closed and called in any order
NextLifecycle ==
    OpenStart \/ OpenDone \/ CloseStart \/ CloseDone \/ LifecycleCall

SpecLifecycle == Init /\ [][NextLifecycle]_vars

(***************************************************************************)
(* assistant.py: server_sign_response on the responses of a request, for   *)
(* the key tables a server may be constructed with.                        *)
(***************************************************************************)
\* the values of RPCServerAssistant.clients: the model's table, the same
\* with a key for C, and one that has the empty string for A
KeyTables ==
    {clients,
     clients @@ (ClientC :> ClientKey[ClientC]),
     (ClientA :> <<>>)}

\* self.clients.get(client)
clients_get(table, client) ==
    IF client \in DOMAIN table THEN Some(table[client]) ELSE None

\* the responses handed to server_sign_response: the result and the error
\* response of a request of A or of C, with id 1 or 2
SignedResponses ==
    LET request(c, i) == [NewRequest(<<"m">>, Some(i), <<2, 3>>, <<>>)
                             EXCEPT !.client = c]
    IN  UNION {{JSONSRPCRequest_respond(request(c, i), Value),
                JSONSRPCRequest_error_respond(request(c, i),
                                              JSONSRPCNonceError),
                JSONSRPCRequest_error_respond(request(c, i),
                                              Exc("ValueError", <<<<"b">>>>))} :
               c \in {ClientA, ClientC}, i \in {1, 2}}

\* server_sign_response(response) by a server with the key table `table`
ServerSignResponse ==
    /\ \E response \in SignedResponses, table \in KeyTables,
          nonce \in ReplyNonces :
          wire' = [op |-> "server_sign_response", response |-> response,
                   table |-> table, nonce |-> nonce, at |-> now,
                   raised |-> "none",
                   signed |-> server_sign_response(
                                 response, nonce, now,
                                 clients_get(table, response.client))]
    /\ UNCHANGED <<now, _id_counter, lifecycle>>
    /\ UNCHANGED callvars
    /\ UNCHANGED checkvars
    /\ UNCHANGED auxvars

(***************************************************************************)
(* client.py: a call whose transport returns the reply the peer made for   *)
(* a request of the same client with any id, that of another call of the   *)
(* client included.                                                        *)
(***************************************************************************)
\* the ids of the requests the peer answers
AnsweredIds == 1..3

\* the transport returns the signed reply of the peer to a request that is
\* the call's but for its id
TransportReplyFor ==
    /\ call.pc = "sent"
    /\ \E i \in AnsweredIds, n \in ReplyNonces :
          call' = [call EXCEPT
                     !.pc = "replied",
                     !.reply = Some(SignedReply([call.req EXCEPT
                                                   !.id = Some(i)], n, now))]
    /\ UNCHANGED <<now, _id_counter, closed, _reply_nonces, serializer, handled>>
    /\ UNCHANGED checkvars
    /\ UNCHANGED auxvars
    /\ UNCHANGED wirevars

\* calls answered through a transport that does not match replies to calls
NextReplyId == ClientOpen \/ ClientCall \/ TransportReplyFor \/ ClientCallReply

SpecReplyId == InitCall /\ [][NextReplyId]_vars

(***************************************************************************)
(* protocols/jsonrpc.py: JSONRPCErrorResponse.to_exception.                *)
(***************************************************************************)
\* errors_by_code: the class registered for each reserved code.  The dict
\* is built before JSONRPCInvalidRequestError is bound a second time, so
\* the class under -32600 is the one that derives from InvalidRequestError.
errors_by_code ==
    (PARSE_ERROR_CODE :> "ParseError")
    @@ (INVALID_REQUEST_CODE :> "InvalidRequestError")
    @@ (METHOD_NOT_FOUND_CODE :> "MethodNotFoundError")
    @@ (INVALID_PARAMS_CODE :> "InvalidParamsError")
    @@ (INTERNAL_ERROR_CODE :> "InternalError")

\* JSONRPCServerError.check_valid
check_valid(code) ==
    MIN_VALID_SERVER_ERROR_CODE <= code /\ code <= MAX_VALID_SERVER_ERROR_CODE

\* a class object, which is what errors_by_code.get returns: no instance
\* has been made of it, and its code, message and data attributes are the
\* properties of RpcError, not values
ClassObject(class) ==
    [isclass |-> TRUE, class |-> class, rpc |-> TRUE, code |-> None,
     message |-> <<>>, data |-> None]

\* an exception instance
Instance(exception) == [isclass |-> FALSE] @@ exception

\* to_exception of an error response with the code, message and data given
JSONRPCErrorResponse_to_exception(code, message, data) ==
    IF code \in DOMAIN errors_by_code
    THEN ClassObject(errors_by_code[code])
    ELSE IF check_valid(code)
    THEN Instance(JSONRPCServerErrorWith(code))
    ELSE Instance(RpcError(code, message, data))

\* the codes of the error responses: the reserved ones, the ends and the
\* inside of the server error range, the codes next to it, and others
ResponseCodes ==
    DOMAIN errors_by_code
    \cup {MIN_VALID_SERVER_ERROR_CODE - 1, MIN_VALID_SERVER_ERROR_CODE,
          AppCode, MAX_VALID_SERVER_ERROR_CODE,
          MAX_VALID_SERVER_ERROR_CODE + 1, PlainCode, 0}

\* JSONRPCErrorResponse(uid, code, message, data).to_exception()
JSONRPCToException ==
    /\ \E code \in ResponseCodes, message \in {<<>>, <<"a", "p", "p">>},
          data \in {None, Some(<<"d">>)} :
          wire' = [op |-> "to_exception", code |-> code,
                   message |-> message, data |-> data,
                   exception |-> JSONRPCErrorResponse_to_exception(
                                     code, message, data)]
    /\ UNCHANGED <<now, _id_counter, lifecycle>>
    /\ UNCHANGED callvars
    /\ UNCHANGED checkvars
    /\ UNCHANGED auxvars

(***************************************************************************)
(* protocols/pyrpc.py: parse_response, on the bytes of a reply.  The       *)
(* values of a reply are typed as in the replies of the plain codec.       *)
(***************************************************************************)
PYRPC_ALLOWED_REPLY_KEYS == {"id", "pyrpc", "error", "result"}

\* Python's truth value of a typed value
TruthyValue(v) ==
    CASE v[1] = "int" -> v[2] # 0
      [] v[1] = "None" -> FALSE
      [] OTHER -> v[2] # <<>>

\* the dict ErrorResponse.serialize hands to the serializer, for the
\* response create_error_response returns: the data entry is always there
PyRPCErrorResponse_msg(response) ==
    [pyrpc |-> response.pyrpc, id |-> response.id,
     error |-> <<"dict",
                 [code |-> <<"int", response.error.code>>,
                  message |-> <<"str", response.error.message>>,
                  data |-> IF response.error.data = None
                           THEN <<"None", <<>>>>
                           ELSE <<"str", response.error.data[1]>>]>>]

\* PyRPCProtocol.parse_response(data) of a codec with the serializer ser:
\* [raised, response].  The message is read from the key `code`.
PyRPC_parse_response(ser, data) ==
    LET bad == [raised |-> "InvalidReplyError", response |-> None]
        d   == Serializer_deserialize(ser, data)
        rep == d.value[1]
        uid == IF "id" \in Keys(rep) THEN rep.id ELSE None
    IN  IF d.raised # "none" THEN bad
        ELSE IF \E k \in Keys(rep) : k \notin PYRPC_ALLOWED_REPLY_KEYS THEN bad
        ELSE IF "pyrpc" \notin Keys(rep) \/ rep.pyrpc # PY_RPC_VERSION THEN bad
        ELSE IF Truthy(uid) /\ ~IsInt(uid) THEN bad
        ELSE IF ("error" \in Keys(rep)) = ("result" \in Keys(rep)) THEN bad
        ELSE IF "result" \in Keys(rep)
        THEN [raised |-> "none",
              response |-> Some(ParsedSuccessResponse(uid, rep.result))]
        ELSE IF rep.error[1] # "dict"
        THEN [raised |-> "AttributeError", response |-> None]
        ELSE LET code    == Get(rep.error[2], "code")
                 message == Get(rep.error[2], "code")
             IN  IF code[1] # "int" THEN bad
                 ELSE IF TruthyValue(message) /\ message[1] # "str" THEN bad
                 ELSE [raised |-> "none",
                       response |-> Some([isError |-> TRUE, uid |-> uid,
                                          code |-> code, message |-> message,
                                          data |-> Get(rep.error[2], "data")])]

\* the error replies a PyRPC peer may send: every code and message of
\* CodeValues and MessageValues, with an id or null
PyRPCCodeValues == {<<"int", INTERNAL_ERROR_CODE>>, <<"int", 0>>,
                    <<"str", <<"x">>>>}

PyRPCMessageValues == {<<"str", InternalErrorMessage>>, <<"str", <<>>>>,
                       <<"int", 1>>}

PyRPCErrorReplies ==
    {[pyrpc |-> PY_RPC_VERSION, id |-> id,
      error |-> <<"dict", [code |-> c, message |-> m]>>] :
        id \in {None, Some(1)}, c \in PyRPCCodeValues,
        m \in PyRPCMessageValues}
    \cup {PyRPCErrorResponse_msg(PyRPC_create_error_response(e, r)) :
            e \in PyRPCGivenExceptions, r \in GivenRequests}

\* PyRPCProtocol(ser).parse_response on the bytes a peer with a serializer
\* of its own makes of an error reply
PyRPCParseResponse ==
    /\ \E rep \in PyRPCErrorReplies, ser \in Serializers,
          peer \in Serializers :
          LET p == PyRPC_parse_response(ser, Serializer_serialize(peer, rep))
          IN  wire' = [op |-> "PyRPC parse_response", serializer |-> ser,
                       peer |-> peer, data |-> rep, raised |-> p.raised,
                       response |-> p.response]
    /\ UNCHANGED <<now, _id_counter, lifecycle>>
    /\ UNCHANGED callvars
    /\ UNCHANGED checkvars
    /\ UNCHANGED auxvars

(***************************************************************************)
(* assistant.py: client_check_response on a response the server signed,    *)
(* and then on responses that carry the same client and signature with     *)
(* other fields.                                                           *)
(***************************************************************************)
\* the nonces of the signed responses; a base85 token may begin with a
\* digit
TamperNonces == {<<"r">>, <<"1", "r">>}

\* the ids somebody on the wire can put into a response
TamperReplyIds == {Some(1), Some(11)}

\* the responses the server signs at clock t for client A: the result of
\* request 1 or an error response to it
ServerSigned(t) ==
    LET request == [NewRequest(<<"m">>, Some(1), <<2, 3>>, <<>>)
                       EXCEPT !.client = ClientA]
    IN  {server_sign_response(b, n, t, server_get_client_key(ClientA)) :
            b \in {JSONSRPCRequest_respond(request, Value),
                   JSONSRPCRequest_error_respond(request, JSONSRPCNonceError)},
            n \in TamperNonces}

\* what a response says: its id, nonce, timestamp, kind, and its result or
\* its error
Content(response) ==
    <<response.unique_id, response.nonce, response.timestamp,
      response.isError,
      IF response.isError
      THEN <<response.error, response._jsonrpc_error_code>>
      ELSE <<response.result>>>>

\* a response the server signed arrives and is checked
ClientCheckSigned ==
    /\ \E response \in ServerSigned(now) : CheckResponse(response, FALSE, TRUE)
    /\ wire' = NoWire
    /\ UNCHANGED <<now, _id_counter, closed, call, serializer, handled>>
    /\ UNCHANGED checkvars
    /\ UNCHANGED <<assistant, rnchk, _counter, created, inflight, checking>>
    /\ UNCHANGED lifecycle

\* after a response has been accepted, a response with its client and its
\* signature that says something else is checked
ClientCheckTampered ==
    /\ rchk.response # NoResponse
    /\ rchk.raised = "none"
    /\ \E i \in TamperReplyIds, n \in TamperNonces,
          ts \in {rchk.response.timestamp, rchk.response.timestamp - 1},
          kind \in BOOLEAN, result \in {Value, Value + 1},
          error \in {JSONSRPCNonceError, JSONSRPCSignatureError} :
          LET response == [rchk.response EXCEPT
                             !.unique_id = i, !.nonce = n, !.timestamp = ts,
                             !.isError = kind, !.result = result,
                             !.error = error.message,
                             !._jsonrpc_error_code = error.jsonrpc_error_code]
              r == client_check_response(_reply_nonces, now, response,
                                         assistant.client, assistant.key)
          IN  /\ Content(response) # Content(rchk.response)
              /\ _reply_nonces' = r.store
              /\ wire' = [op |-> "tampered", accepted |-> rchk.response,
                          response |-> response, raised |-> r.raised]
    /\ UNCHANGED <<now, _id_counter, closed, call, serializer, handled>>
    /\ UNCHANGED checkvars
    /\ UNCHANGED auxvars
    /\ UNCHANGED lifecycle

\* signed responses and tampered ones reaching the client's check
NextTamper == ClientCheckSigned \/ ClientCheckTampered

SpecTamper == Init /\ [][NextTamper]_vars

(***************************************************************************)
(* jsonsrpc.py, assistant.py: a reply whose id and result are of any JSON  *)
(* type.  parse_reply copies rep['id'] and rep['result'] into the response *)
(* as they are, so the response carries typed values: <<"int", n>>,        *)
(* <<"str", s>> or <<"None", <<>>>>.                                       *)
(***************************************************************************)
\* str() of a value of a JSON type
str_value(v) ==
    IF v[1] = "int" THEN str(v[2])
    ELSE IF v[1] = "str" THEN v[2]
    ELSE <<"N", "o", "n", "e">>

\* json.dumps of a value of a JSON type
json_dumps_value(v) ==
    IF v[1] = "int" THEN str(v[2])
    ELSE IF v[1] = "str" THEN json_dumps_str(v[2])
    ELSE <<"n", "u", "l", "l">>

\* _rep_msg for a success response with an id and a result of any JSON type
_rep_msg_value(rep) ==
    rep.client \o str_value(rep.unique_id) \o rep.nonce
    \o str(rep.timestamp) \o json_dumps_value(rep.result)

\* the success response parse_reply returns for the reply
\* {"id": id, "result": result, "client": ..., "nonce": ..., "timestamp":
\* ..., "sig": ...} with the last four taken from the request
ReflectedReply(request, id, result) ==
    [isError |-> FALSE, unique_id |-> id, client |-> request.client,
     nonce |-> request.nonce, timestamp |-> request.timestamp,
     sig |-> Some(request.sig), result |-> result]

\* the ids and results somebody on the wire can put into the reply
ReflectedIds ==
    {<<"None", <<>>>>}
    \cup {<<"int", i>> : i \in 1..MaxRequests}
    \cup {<<"str", m>> : m \in Methods}
    \cup {<<"str", m \o str(i)>> : m \in Methods, i \in 1..MaxRequests}

ReflectedResults ==
    {<<"None", <<>>>>, <<"int", Value>>, <<"str", <<>>>>}
    \cup {<<"str", json_dumps_list(p[1])>> : p \in Params}
    \cup {<<"str", json_dumps_dict(p[2])>> : p \in Params}

\* a reply made of the fields of the request the client has just signed
\* reaches the client's check
ClientCheckReflected ==
    /\ signed # NoRequest
    /\ \E id \in ReflectedIds, result \in ReflectedResults :
          LET response == ReflectedReply(signed, id, result)
              r == check_response_msg(_reply_nonces, now, response,
                                      assistant.client, assistant.key,
                                      _rep_msg_value(response))
          IN  /\ _reply_nonces' = r.store
              /\ wire' = [op |-> "reflected", request |-> signed,
                          response |-> response, raised |-> r.raised]
    /\ UNCHANGED <<now, _id_counter, closed, call, serializer, handled>>
    /\ UNCHANGED checkvars
    /\ UNCHANGED auxvars
    /\ UNCHANGED lifecycle

\* the client signs requests and is answered with their own fields
NextReflect == ClientSignRequest \/ ClientCheckReflected

SpecReflect == Init /\ [][NextReflect]_vars

\* the codecs applied to what they are given
NextWire ==
    \/ JSONRPCRoundTrip
    \/ JSONRPCCreateErrorResponse
    \/ PyRPCCreateErrorResponse
    \/ JSONRPCParseResponse
    \/ JSONRPCCreateResponse
    \/ JSONRPCParseRequest
    \/ JSONSRPCErrorRespond
    \/ ServerSignResponse
    \/ JSONRPCToException
    \/ PyRPCParseResponse

SpecWire == Init /\ [][NextWire]_vars

(***************************************************************************)
(* Properties of the server assistant.                                     *)
(***************************************************************************)
\* the step is a server_check_request call
Called == chk'.seq # chk.seq

\* the step is a direct server_check_request_nonce call
NonceCalled == nchk'.seq # nchk.seq

\* the call observed in c was made while its request's timestamp was within
\* the window
InWindow(c) == abs(c.at - c.req.timestamp) <= MAX_TIMESTAMP_DELTA

Registered(client) == client \in DOMAIN clients

\* req carries the signature its registered client's key gives its fields
ValidlySigned(req) ==
    /\ Registered(req.client)
    /\ req.sig = _sign(clients[req.client], _req_msg(req))

\* the (client, nonce) pair is in the nonce store
Recorded(store, client, nonce) ==
    client \in DOMAIN store /\ nonce \in DOMAIN store[client]

\* C1: a signed request that has been accepted once is rejected whenever it
\* is presented again: with NonceError while its timestamp is within the
\* window, with TimestampError afterwards.
C1_AcceptedAtMostOnce ==
    chk.replayed =>
        chk.outcome = IF InWindow(chk) THEN "NonceError" ELSE "TimestampError"

\* C2 (as stated): of two successive calls for the same registered client
\* and nonce, both made while the request's timestamp is within the window
\* and at most a window apart, the second fails with NonceError.
C2_SecondCallNonceError ==
    [][(/\ Called
        /\ chk.req # NoRequest
        /\ Registered(chk.req.client)
        /\ chk'.req.client = chk.req.client
        /\ chk'.req.nonce = chk.req.nonce
        /\ InWindow(chk) /\ InWindow(chk')
        /\ chk'.at - chk.at <= MAX_TIMESTAMP_DELTA)
       => chk'.outcome = "NonceError"]_vars

\* C2 (amended): the same, for a first call that did not itself fail with
\* NonceError, that is, one that got to the signature comparison, whatever
\* that comparison gave.
C2_SecondCallNonceError_Amended ==
    [][(/\ Called
        /\ chk.req # NoRequest
        /\ Registered(chk.req.client)
        /\ chk'.req.client = chk.req.client
        /\ chk'.req.nonce = chk.req.nonce
        /\ InWindow(chk) /\ InWindow(chk')
        /\ chk'.at - chk.at <= MAX_TIMESTAMP_DELTA
        /\ chk.outcome # "NonceError")
       => chk'.outcome = "NonceError"]_vars

\* the second of two calls with one nonce fails with NonceError after a
\* first call that failed the signature comparison
C2_Witness ==
    /\ chk.prev = "SignatureError"
    /\ chk.outcome = "NonceError"
    /\ Registered(chk.req.client)
    /\ InWindow(chk)

\* C5: for a registered client, a nonce that is not in the store and a valid
\* signature, server_check_request fails with TimestampError exactly when
\* |now - timestamp| > 3600, and succeeds otherwise.
C5_TimestampWindow ==
    [][(/\ Called
        /\ ValidlySigned(chk'.req)
        /\ ~Recorded(request_nonces, chk'.req.client, chk'.req.nonce))
       => chk'.outcome =
             IF abs(now - chk'.req.timestamp) > 3600 THEN "TimestampError"
             ELSE "ok"]_vars

\* a validly signed request dated 3601 s ahead of the clock is refused
C5_Witness ==
    /\ ValidlySigned(chk.req)
    /\ chk.req.timestamp - chk.at = 3601
    /\ chk.outcome = "TimestampError"

\* C6: a pair recorded at t0 is rejected by server_check_request_nonce at
\* every time t with t - t0 <= 3600 and stays recorded at t0; a check at a
\* time t with t - t0 > 3600 accepts it and records it again with time t.
C6_NonceWindow ==
    [][(/\ NonceCalled
        /\ Recorded(request_nonces, nchk'.client, nchk'.nonce))
       => LET t0  == request_nonces[nchk'.client][nchk'.nonce]
              rec == request_nonces'[nchk'.client][nchk'.nonce]
          IN  IF now - t0 <= 3600 THEN ~nchk'.ok /\ rec = t0
              ELSE nchk'.ok /\ rec = now]_vars

\* a recorded pair is accepted again once its record is more than a window old
C6_Witness ==
    /\ nchk.before # None
    /\ nchk.ok
    /\ nchk.at - nchk.before[1] > 3600

\* C7: for an identity with no key in the key table server_check_request
\* fails with UnknownClientError whatever else is wrong with the request,
\* computes no HMAC and leaves the nonce store as it is.
C7_UnknownClientFirst ==
    [][(Called /\ ~Registered(chk'.req.client))
       => /\ chk'.outcome = "UnknownClientError"
          /\ chk'.hmacs = 0
          /\ request_nonces' = request_nonces]_vars

\* an unregistered client's request with a stale timestamp is refused as
\* unknown, and the store has no entry for that client
C7_Witness ==
    /\ chk.req # NoRequest
    /\ ~Registered(chk.req.client)
    /\ ~InWindow(chk)
    /\ chk.outcome = "UnknownClientError"
    /\ chk.req.client \notin DOMAIN request_nonces

(***************************************************************************)
(* Properties of signing and checking.                                     *)
(***************************************************************************)
\* the fields of a request the signature is meant to cover
Fields(req) ==
    <<req.method, req.id, req.nonce, req.timestamp, req.args, req.kwargs>>

\* C3: once the server has accepted a signed request, every request with
\* the same client and signature and a different method, id, nonce,
\* timestamp or params that gets as far as the signature comparison (its
\* timestamp within the window, its nonce unused) fails with SignatureError.
C3_TamperRejected ==
    (/\ delivered
     /\ chk.req.client = signed.client
     /\ chk.req.sig = signed.sig
     /\ Fields(chk.req) # Fields(signed)
     /\ chk.outcome \notin {"TimestampError", "NonceError"})
    => chk.outcome = "SignatureError"

\* C4: a request the client signed with key K, checked at the same clock
\* value by a server whose table gives that client K while its nonce is not
\* in the store, is accepted.
C4_SignThenCheck ==
    [][(/\ Called
        /\ chk'.req = signed
        /\ signed.timestamp = now
        /\ Registered(signed.client)
        /\ clients[signed.client] = ClientKey[signed.client]
        /\ ~Recorded(request_nonces, signed.client, signed.nonce))
       => chk'.outcome = "ok"]_vars

\* a signed one-way request (no id) with keyword arguments is accepted
C4_Witness ==
    /\ signed # NoRequest
    /\ chk.req = signed
    /\ chk.at = signed.timestamp
    /\ signed.id = None
    /\ signed.kwargs # <<>>
    /\ chk.outcome = "ok"

(***************************************************************************)
(* Properties of the orchestrators.                                        *)
(***************************************************************************)
\* the error code the signed codec gives the failure of a check
CheckCode(outcome) ==
    CASE outcome = "UnknownClientError" ->
             JSONSRPCUnknownClientError.jsonrpc_error_code
      [] outcome = "SignatureError" -> JSONSRPCSignatureError.jsonrpc_error_code
      [] outcome = "TimestampError" -> JSONSRPCTimestampError.jsonrpc_error_code
      [] outcome = "NonceError" -> JSONSRPCNonceError.jsonrpc_error_code

\* C8: for a request server_check_request rejects, Server.handler does not
\* invoke the dispatcher and returns an error response that carries the
\* code of the check that failed.
C8_RejectedNotDispatched ==
    handled.check \notin {"none", "ok"} =>
        /\ ~handled.dispatched
        /\ handled.raised = "none"
        /\ handled.response # None
        /\ "error" \in Keys(handled.response[1])
        /\ handled.response[1].error.code = CheckCode(handled.check)

\* C9: a call with args that is not one-way, made by client A with key K
\* through the local transport to a server whose dispatcher returns Value,
\* the clock standing still, completes returning Value.
C9_EndToEnd ==
    (/\ call.pc = "done"
     /\ call.honest
     /\ ~call.one_way
     /\ call.req.args # <<>>
     /\ call.req.timestamp = now
     /\ handled.returns)
    => /\ call.outcome = "returned"
       /\ call.result = Some(Value)

\* the step hands a request to the transport
CallSent == call.pc # "sent" /\ call'.pc = "sent"

\* the step is the rest of a call that expects a reply, from the reply on
CallReplied == call.pc = "replied" /\ call'.pc = "done" /\ ~call.one_way

\* C10: the request handed to the transport carries the signature
\* client_sign_request gave it; the call returns a result or raises the
\* remote error only when the reply parsed and client_check_response
\* succeeded on it; and when client_check_response fails the call raises
\* that failure and returns nothing.
C10_CheckedBeforeResult ==
    [][/\ CallSent =>
            LET r == call'.req
            IN  /\ r.client = ClientA
                /\ r.nonce # None
                /\ r.timestamp = now
                /\ r.sig = _sign(ClientKey[ClientA], _req_msg(r))
                /\ call'.message = Some(JSONSRPCRequest_serialize(r))
       /\ CallReplied =>
            LET p == JSONSRPC_parse_reply(call.reply[1])
                c == client_check_response(_reply_nonces, now,
                                           p.response[1], ClientA,
                                           ClientKey[ClientA])
            IN  /\ call'.outcome \in {"returned", "RPCError: remote"}
                     => p.raised = "none" /\ c.raised = "none"
                /\ (p.raised = "none" /\ c.raised # "none")
                     => call'.outcome = c.raised /\ call'.result = None
                /\ call'.result # None => call'.outcome = "returned"]_vars

\* a call has returned the result of a reply that passed the check, and
\* the reply's nonce is in the client's store
C10_Witness ==
    /\ call.pc = "done"
    /\ ~call.one_way
    /\ call.outcome = "returned"
    /\ call.result = Some(Value)
    /\ _reply_nonces # <<>>

(***************************************************************************)
(* Properties of the client assistant.                                     *)
(***************************************************************************)
\* the step is a client_check_response call
ResponseChecked == rchk'.seq # rchk.seq

\* the step is a direct client_check_response_nonce call
ReplyNonceChecked == rnchk'.seq # rnchk.seq

\* the canonical string of a response
ResponseMsg(response) ==
    IF response.isError THEN _error_rep_msg(response) ELSE _rep_msg(response)

\* the response is made out to the assistant's identity and carries the
\* signature the assistant's key gives its fields
CorrectlySigned(response) ==
    /\ response.client = assistant.client
    /\ response.sig = Some(_sign(assistant.key, ResponseMsg(response)))

\* C11: client_check_response never returns normally for a response whose
\* sig is the empty string or null, whatever the assistant's key and the
\* response's other fields.
C11_EmptySigRejected ==
    (/\ rchk.response # NoResponse
     /\ rchk.response.sig \in {None, Some(<<>>)})
    => rchk.raised # "none"

\* a response server_sign_response emitted with the empty sig, for an
\* identity the server has no key for, is refused by that identity's
\* assistant at the signature comparison
C11_Witness ==
    /\ assistant.client = ClientC
    /\ rchk.response.client = ClientC
    /\ rchk.response.sig = Some(<<>>)
    /\ rchk.response.nonce # None
    /\ rchk.raised = "RPCError: sig error"

\* C12: when a correctly signed response whose nonce is new and whose
\* timestamp is within the window is checked, and checked again at most
\* 3600 s later, the first check accepts it and the second fails with the
\* nonce error.
C12_ReplayNonceError ==
    (/\ rchk.again
     /\ rchk.fresh
     /\ CorrectlySigned(rchk.response)
     /\ rchk.at - rchk.prevAt <= MAX_TIMESTAMP_DELTA)
    => /\ rchk.prev = "none"
       /\ rchk.raised = "RPCError: nonce error"

\* C13: client_check_response_nonce removes every entry recorded more than
\* 3600 s ago, then returns False and records nothing when the nonce is
\* still in the store, and otherwise records the nonce with the current
\* time and returns True; it raises nothing.
C13_PruneTestRecord ==
    [][ReplyNonceChecked =>
         LET Live(e) == ~NonceExpired(now, e[2])
             pruned  == SelectSeq(_reply_nonces, Live)
         IN  /\ rnchk'.raised = "none"
             /\ IF InStore(pruned, rnchk'.nonce)
                THEN ~rnchk'.ok /\ _reply_nonces' = pruned
                ELSE /\ rnchk'.ok
                     /\ _reply_nonces' = Append(pruned, <<rnchk'.nonce, now>>)
       ]_vars

\* C14: for a response whose client is not the assistant's identity
\* client_check_response fails with the client mismatch error, computes no
\* HMAC and leaves the nonce store as it is.
C14_ClientMismatchFirst ==
    [][(ResponseChecked /\ rchk'.response.client # assistant.client)
       => /\ rchk'.raised = "RPCError: client mismatch"
          /\ rchk'.hmacs = 0
          /\ _reply_nonces' = _reply_nonces]_vars

\* a response made out to C and signed with C's key, its nonce new and its
\* timestamp current, is refused by A's assistant, and its nonce is not in
\* A's store afterwards
C14_Witness ==
    /\ assistant.client = ClientA
    /\ rchk.response.client = ClientC
    /\ rchk.response.sig =
          Some(_sign(ClientKey[ClientC], ResponseMsg(rchk.response)))
    /\ rchk.response.timestamp = rchk.at
    /\ rchk.raised = "RPCError: client mismatch"
    /\ ~InStore(_reply_nonces, rchk.response.nonce)

(***************************************************************************)
(* Properties of the codecs' create_request.                               *)
(***************************************************************************)
\* the step is a create_request call
Created == created'.seq # created.seq

\* C17 (as stated): the ids the plain codec gives N successive requests
\* with one_way=False are strictly increasing, and the first is the value
\* the codec was constructed with.
C17_IdsFromInitial ==
    /\ \A i, j \in 1..Len(created.ids) :
          i < j => created.ids[i] < created.ids[j]
    /\ created.ids # <<>> => created.ids[1] = created.initial

\* C17 (amended): the ids are strictly increasing, and the first is the
\* value the codec was constructed with plus one; the i-th is that value
\* plus i.
C17_IdsFromInitial_Amended ==
    /\ \A i, j \in 1..Len(created.ids) :
          i < j => created.ids[i] < created.ids[j]
    /\ \A i \in 1..Len(created.ids) :
          created.ids[i] = created.initial + i

\* three requests of a codec constructed with a counter that is not 0
C17_Witness ==
    /\ created.initial # 0
    /\ Len(created.ids) >= 3
    /\ created.ids[3] = created.initial + 3

\* C18: a create_request call with one_way=True that returns a request
\* returns one with a null id and leaves the counter of its codec, and
\* the ids issued, as they are, whatever calls were made before it.
C18_OneWayNoId ==
    [][(Created /\ created'.one_way /\ created'.raised = None)
       => /\ created'.uid = None
          /\ _counter' = _counter
          /\ _id_counter' = _id_counter
          /\ created'.ids = created.ids]_vars

\* a one-way request of the plain codec after requests with ids
C18_Witness ==
    /\ created.codec = "JSONRPCProtocol"
    /\ created.one_way
    /\ created.raised = None
    /\ created.uid = None
    /\ Len(created.ids) >= 2
    /\ _counter = created.initial + Len(created.ids)

\* C20: create_request of the plain codec called with both args and kwargs
\* raises an InvalidRequestError that carries the code -32600, returns no
\* request and leaves the counter as it is.
C20_BothParamsInvalidRequest ==
    [][(Created /\ created'.codec = "JSONRPCProtocol" /\ created'.both)
       => /\ created'.raised # None
          /\ created'.raised[1].class = "InvalidRequestError"
          /\ created'.raised[1].code = Some(INVALID_REQUEST_CODE)
          /\ created'.uid = None
          /\ _counter' = _counter]_vars

\* C19: for a request without an id Server.handler returns no bytes,
\* whether the dispatcher returns a value or raises.
C19_OneWayNoReply ==
    (handled.check # "none" /\ handled.req.id = None)
    => handled.result = None

(***************************************************************************)
(* Properties of concurrent calls and checks.                              *)
(***************************************************************************)
\* C15: no two calls in flight on one client hold requests with the same
\* id, wherever each of them is suspended.
C15_DistinctIds ==
    \A i, j \in 1..Len(inflight) :
        (/\ i # j
         /\ inflight[i].req.id # None
         /\ inflight[j].req.id # None)
        => inflight[i].req.id # inflight[j].req.id

\* a call started later has completed while the first call is still
\* suspended in client_sign_request, and both have ids
C15_Witness ==
    /\ Len(inflight) >= 2
    /\ inflight[1].pc = "nonce"
    /\ inflight[2].pc = "done"
    /\ inflight[1].req.id # None
    /\ inflight[2].req.id # None
    /\ inflight[2].outcome = "returned"

\* the i-th check has made its nonce check, and passed it
PassedNonceCheck(i) == checking[i].pc \in {"sig", "done"} /\ checking[i].ok

C21_RoundTrip ==
    wire.op = "round trip" =>
        /\ wire.exception = None
        /\ wire.parsed[1].method = wire.request.method
        /\ wire.parsed[1].uid = wire.request.uid
        /\ wire.parsed[1].args = wire.request.args
        /\ wire.parsed[1].kwargs = wire.request.kwargs

(***************************************************************************)
(* Properties of Server.handler on what it cannot parse.                   *)
(***************************************************************************)
\* Server.handler has run on a message
Handled == handled.message # None

\* the dict the server's serializer decodes the message to
Decoded == Serializer_deserialize(serializer, handled.message[1])

\* the message is decodable and has a key the protocol does not have, or no
\* version tag, or another version
BadKeysOrVersion ==
    /\ Handled
    /\ Decoded.raised = "none"
    /\ LET data == Decoded.value[1]
       IN  \/ \E k \in Keys(data) : k \notin JSONRPC_ALLOWED_REQUEST_KEYS
           \/ "jsonrpc" \notin Keys(data)
           \/ data.jsonrpc # JSON_RPC_VERSION

\* handler returned an error response with a null id
NullIdError ==
    /\ handled.raised = "none"
    /\ handled.response # None
    /\ Keys(handled.response[1]) = {"jsonrpc", "id", "error"}
    /\ handled.response[1].id = None
    /\ handled.result # None

\* C22: on a decodable message with an unrecognized top-level key or a
\* missing or wrong version tag, Server.handler does not invoke the
\* dispatcher and returns an error response with a null id and the code
\* -32600.
C22_BadKeysInvalidRequest ==
    BadKeysOrVersion =>
        /\ ~handled.dispatched
        /\ NullIdError
        /\ handled.response[1].error.code = INVALID_REQUEST_CODE

\* create_error_response of the plain codec has been called
ErrorResponseCreated == wire.op = "create_error_response"

\* the code reserved for a kind of failure; an exception of no kind is an
\* internal error
KindCode(class) ==
    CASE class = "ParseError" -> PARSE_ERROR_CODE
      [] class = "InvalidRequestError" -> INVALID_REQUEST_CODE
      [] class = "MethodNotFoundError" -> METHOD_NOT_FOUND_CODE
      [] class = "InvalidParamsError" -> INVALID_PARAMS_CODE
      [] class = "InternalError" -> INTERNAL_ERROR_CODE
      [] class = "ServerError" -> MAX_VALID_SERVER_ERROR_CODE
      [] OTHER -> INTERNAL_ERROR_CODE

\* the id create_error_response is to bind the response to
GivenId == IF wire.request # None THEN wire.request[1].uid ELSE None

\* C23: for an exception of each kind of exceptions.py and for an unrelated
\* exception, create_error_response does not raise and returns an error
\* response with the code reserved for the kind (-32603 for an unrelated
\* exception) and the id of the request given, null when none is given.
C23_KindCode ==
    (ErrorResponseCreated /\ ~wire.exception.rpc) =>
        /\ wire.raised = "none"
        /\ wire.response[1].error.code = KindCode(wire.exception.class)
        /\ wire.response[1].id = GivenId

\* the error entry of an error response of the plain codec carries the
\* exception's code, message and data (to_data leaves empty data out)
Preserved(error, exception) ==
    /\ error.code = exception.code[1]
    /\ error.message = exception.message
    /\ IF "data" \in Keys(error)
       THEN exception.data # None /\ error.data = exception.data[1]
       ELSE Falsy(exception.data)

\* C24: given an exception that carries a code, create_error_response
\* returns an error response with that exception's code, message and data,
\* in the plain codec and in the PyRPC codec.
C24_CodePreserved ==
    /\ (ErrorResponseCreated /\ wire.exception.code # None) =>
          (wire.raised = "none"
           /\ Preserved(wire.response[1].error, wire.exception))
    /\ (wire.op = "PyRPC create_error_response"
        /\ wire.exception.code # None) =>
          /\ wire.response[1].error.code = wire.exception.code[1]
          /\ wire.response[1].error.message = wire.exception.message
          /\ wire.response[1].error.data = wire.exception.data

\* the message does not deserialize, or parse_request fails on what it
\* deserializes to
ParseFails ==
    /\ Handled
    /\ \/ Decoded.raised # "none"
       \/ JSONRPC_parse_request(Decoded.value[1]).exception # None

\* C25: for a message whose deserialization or parse_request fails,
\* Server.handler does not invoke the dispatcher and returns an error
\* response with a null id, whether or not the message carries an id.
C25_ParseFailureNotDispatched ==
    ParseFails => (~handled.dispatched /\ NullIdError)

\* a message that carries an id and does not parse has been answered with a
\* null id, the dispatcher not having been invoked
C25_Witness ==
    /\ ParseFails
    /\ Decoded.raised = "none"
    /\ "id" \in Keys(Decoded.value[1])
    /\ Decoded.value[1].id = Some(1)
    /\ ~handled.dispatched
    /\ NullIdError

\* the step is a call
CallMade == call'.n # call.n

\* C26: a call raises RuntimeError('Client is closed') exactly when no open
\* has completed yet or the lifecycle operation that completed last is a
\* close; then no request is created (the id counter stays), nothing is
\* signed and nothing is handed to the transport.
C26_ClosedCallFails ==
    [][CallMade =>
          /\ call'.outcome = "RuntimeError" <=> lifecycle.last # "open"
          /\ call'.outcome = "RuntimeError" =>
                /\ _id_counter' = _id_counter
                /\ call'.req = NoRequest
                /\ call'.message = None
                /\ call'.pc = "done"]_vars

\* after a call that was sent and a close that completed, a call has been
\* refused while another open is awaiting the transport
C26_Witness ==
    /\ call.n = 2
    /\ call.outcome = "RuntimeError"
    /\ _id_counter = 1
    /\ lifecycle.last = "close"
    /\ lifecycle.opening
    /\ call.message = None

(***************************************************************************)
(* Properties of the client's calls.                                       *)
(***************************************************************************)
\* the step is the return of send_message to a one-way call, and what call
\* does from there
OneWayReturns == call.one_way /\ call.pc = "replied" /\ call'.pc = "done"

\* C27: a one-way call hands the request to the transport with
\* expect_reply false and then returns no result; it does not parse the
\* reply, does not call client_check_response and leaves the client's
\* reply-nonce store as it is.
C27_OneWayNoReplyProcessing ==
    [][OneWayReturns =>
          /\ call.message # None
          /\ ~call.expect_reply
          /\ call'.outcome = "returned"
          /\ call'.result = None
          /\ ~call'.parsed
          /\ ~call'.checked
          /\ _reply_nonces' = _reply_nonces]_vars

\* a one-way call has returned, the transport having come back with a
\* reply that a call awaiting one would have parsed and checked
C27_Witness ==
    /\ call.pc = "done"
    /\ call.one_way
    /\ call.outcome = "returned"
    /\ call.result = None
    /\ call.reply # None
    /\ RPCClient_call_reply(_reply_nonces, now, FALSE, call.reply[1]).checked

\* parse_response has been called
ResponseParsed == wire.op = "parse_response"

\* the reply has only keys of the protocol and the right version tag
KeysAndVersion(data) ==
    /\ \A k \in Keys(data) : k \in JSONRPC_ALLOWED_REPLY_KEYS
    /\ "jsonrpc" \in Keys(data)
    /\ data.jsonrpc = JSON_RPC_VERSION

\* the dict has exactly one of result and error
ExactlyOne(data) == ("result" \in Keys(data)) # ("error" \in Keys(data))

\* the responses the codec builds have exactly one of result and error
BuiltWithExactlyOne ==
    /\ wire.op = "create_response" => ExactlyOne(wire.response)
    /\ (ErrorResponseCreated /\ wire.raised = "none")
          => ExactlyOne(wire.response[1])

\* C28: parse_response returns a response exactly when the reply, its keys
\* allowed and its version tag right, has exactly one of result and error;
\* with both or neither it raises ServerReplyError; and what create_response
\* and create_error_response build has exactly one of the two.
C28_ExactlyOne ==
    /\ (ResponseParsed /\ KeysAndVersion(wire.data)) =>
          /\ wire.raised = "none" <=> ExactlyOne(wire.data)
          /\ ~ExactlyOne(wire.data) => wire.raised = "ServerReplyError"
    /\ BuiltWithExactlyOne

\* the id is one parse_response lets pass: falsy, an integer or a string
IdAccepted(data) ==
    LET uid == IF "id" \in Keys(data) THEN data.id ELSE None
    IN  ~Truthy(uid) \/ IsIntOrStr(uid)

\* the error of the reply, if it has one, is a dict with an integer code
\* and a string message
ErrorWellFormed(data) ==
    "error" \in Keys(data) =>
        /\ data.error[1] = "dict"
        /\ Get(data.error[2], "code")[1] = "int"
        /\ Get(data.error[2], "message")[1] = "str"

\* C28 (amended): parse_response returns a response exactly when the reply
\* has allowed keys, the right version tag, an id that is falsy, an integer
\* or a string, exactly one of result and error and, for an error, a dict
\* with an integer code and a string message; with both or neither it
\* raises ServerReplyError; and what the codec builds has exactly one.
C28_ExactlyOne_Amended ==
    /\ ResponseParsed =>
          /\ wire.raised = "none" <=>
                (/\ KeysAndVersion(wire.data)
                 /\ IdAccepted(wire.data)
                 /\ ExactlyOne(wire.data)
                 /\ ErrorWellFormed(wire.data))
          /\ ~ExactlyOne(wire.data) => wire.raised = "ServerReplyError"
    /\ BuiltWithExactlyOne

\* parse_response has returned an error response for a reply with an error
\* and no result
C28_Witness ==
    /\ ResponseParsed
    /\ wire.raised = "none"
    /\ "error" \in Keys(wire.data)
    /\ "result" \notin Keys(wire.data)
    /\ wire.response[1].isError

\* C29: parse_request rejects every request whose id is present and not an
\* integer, the empty string and the empty list included, and the
\* exception is an InvalidRequestError.
C29_IdInteger ==
    (/\ wire.op = "parse_request"
     /\ "id" \in Keys(wire.data)
     /\ ~IsInt(wire.data.id)) =>
        /\ wire.exception # None
        /\ wire.exception[1].class = "InvalidRequestError"

\* the exception is of no class the signed codec has a code for
Unrelated(e) ==
    e.class \notin {"InvalidRequestError", "MethodNotFoundError", "str"}

\* C30: in the signed codec the error response to an exception of no kind
\* of the taxonomy has the code and the message of the internal error, so
\* that two runs that differ only in the exception's text give the same
\* code and message.
C30_FixedInternalError ==
    (/\ wire.op = "error_respond"
     /\ wire.request.id # None
     /\ Unrelated(wire.errors[1])) =>
        /\ wire.responses[1][1]._jsonrpc_error_code
              = JSONSRPC_InternalError.jsonrpc_error_code
        /\ wire.responses[1][1].error = JSONSRPC_InternalError.message
        /\ wire.responses[2][1]._jsonrpc_error_code
              = wire.responses[1][1]._jsonrpc_error_code
        /\ wire.responses[2][1].error = wire.responses[1][1].error

(***************************************************************************)
(* Properties of the order and the effects of the server's checks.         *)
(***************************************************************************)
\* the (client, nonce) pair has a record in the store that a check made at
\* time t does not prune
Used(store, client, nonce, t) ==
    /\ Recorded(store, client, nonce)
    /\ abs(t - store[client][nonce]) <= MAX_TIMESTAMP_DELTA

\* C31: server_check_request reports the first check that fails in the
\* order unknown client, timestamp, nonce, signature, whatever else is
\* wrong with the request, and the checks after it have no effect: a
\* request rejected for its client or its timestamp leaves the nonce store
\* as it is, and one rejected for its nonce has no signature computed.
C31_FirstFailingCheck ==
    [][Called =>
          LET req     == chk'.req
              unknown == ~Registered(req.client)
              stale   == abs(now - req.timestamp) > MAX_TIMESTAMP_DELTA
              used    == Used(request_nonces, req.client, req.nonce, now)
              forged  == ~ValidlySigned(req)
          IN  /\ unknown =>
                    /\ chk'.outcome = "UnknownClientError"
                    /\ chk'.hmacs = 0
                    /\ request_nonces' = request_nonces
              /\ (~unknown /\ stale) =>
                    /\ chk'.outcome = "TimestampError"
                    /\ chk'.hmacs = 0
                    /\ request_nonces' = request_nonces
              /\ (~unknown /\ ~stale /\ used) =>
                    /\ chk'.outcome = "NonceError"
                    /\ chk'.hmacs = 0
                    /\ request_nonces'[req.client][req.nonce]
                          = request_nonces[req.client][req.nonce]
              /\ (~unknown /\ ~stale /\ ~used /\ forged) =>
                    chk'.outcome = "SignatureError"
              /\ (~unknown /\ ~stale /\ ~used /\ ~forged) =>
                    chk'.outcome = "ok"]_vars

\* a request with a forged signature, a stale timestamp and a nonce that
\* has a live record is refused for its timestamp
C31_Witness ==
    /\ chk.outcome = "TimestampError"
    /\ Registered(chk.req.client)
    /\ ~ValidlySigned(chk.req)
    /\ Used(request_nonces, chk.req.client, chk.req.nonce, chk.at)

\* C32: the server's nonce store is keyed by client.  A check of a nonce
\* for one client refuses it only when that very client has a record of
\* it, whatever the other clients have recorded, and leaves the records of
\* every other client as they are, none pruned and none added.
C32_KeyedPerClient ==
    [][NonceCalled =>
          /\ ~Recorded(request_nonces, nchk'.client, nchk'.nonce) => nchk'.ok
          /\ \A c \in DOMAIN request_nonces \ {nchk'.client} :
                /\ c \in DOMAIN request_nonces'
                /\ request_nonces'[c] = request_nonces[c]
          /\ DOMAIN request_nonces'
                = DOMAIN request_nonces \cup {nchk'.client}]_vars

\* a nonce one client has a record of has been accepted from the other
\* client, after the first record has grown older than the window, and
\* the first record is still there
C32_Witness ==
    /\ nchk.ok
    /\ nchk.client = ClientC
    /\ nchk.before = None
    /\ Recorded(request_nonces, ClientA, nchk.nonce)
    /\ Recorded(request_nonces, ClientC, nchk.nonce)
    /\ nchk.at - request_nonces[ClientA][nchk.nonce] > MAX_TIMESTAMP_DELTA

(***************************************************************************)
(* Properties of server_sign_response.                                     *)
(***************************************************************************)
\* server_sign_response has been applied
ResponseSigned == wire.op = "server_sign_response"

\* what the claim asks of the response but for its signature: the nonce
\* server_get_response_nonce returned, the clock's value, and no exception
NonceAndTimestamp ==
    /\ wire.raised = "none"
    /\ wire.signed.nonce = wire.nonce
    /\ wire.signed.timestamp = wire.at
    /\ wire.signed.client = wire.response.client
    /\ wire.signed.unique_id = wire.response.unique_id

\* the HMAC, with the table's key for the response's client, of the
\* canonical string of the signed response
TableHmac ==
    Some(_sign(wire.table[wire.response.client], ResponseMsg(wire.signed)))

\* C33 (as stated): server_sign_response gives the response the nonce
\* drawn and the clock's value and never raises; the signature is the
\* empty string exactly when the key table has no key for the response's
\* client, and otherwise the HMAC of the response's canonical string, the
\* error form for an error response and the result form for another.
C33_SignResponse ==
    ResponseSigned =>
        /\ NonceAndTimestamp
        /\ wire.signed.sig = Some(<<>>)
              <=> wire.response.client \notin DOMAIN wire.table
        /\ wire.response.client \in DOMAIN wire.table
              => wire.signed.sig = TableHmac

\* the key table has nothing for the client, or has the empty string
NoKey(table, client) == client \notin DOMAIN table \/ table[client] = <<>>

\* C33 (amended): the same, the signature being the empty string exactly
\* when the table has no key for the client or has the empty string for it.
C33_SignResponse_Amended ==
    ResponseSigned =>
        /\ NonceAndTimestamp
        /\ wire.signed.sig = Some(<<>>)
              <=> NoKey(wire.table, wire.response.client)
        /\ ~NoKey(wire.table, wire.response.client)
              => wire.signed.sig = TableHmac

\* an error response of a client that has a key has been signed over its
\* error form
C33_Witness ==
    /\ ResponseSigned
    /\ wire.response.isError
    /\ ~NoKey(wire.table, wire.response.client)
    /\ wire.signed.sig = Some(_sign(wire.table[wire.response.client],
                                    _error_rep_msg(wire.signed)))

(***************************************************************************)
(* Properties of the reply a call returns.                                 *)
(***************************************************************************)
\* C34: a call that returns a result returns the result of a reply whose
\* id is the id of the request it sent.
C34_ReplyIdMatches ==
    (/\ call.pc = "done"
     /\ ~call.one_way
     /\ call.outcome = "returned"
     /\ call.result # None)
    => JSONSRPC_parse_reply(call.reply[1]).response[1].unique_id = call.req.id

(***************************************************************************)
(* Properties of the codes Server.handler answers with.                    *)
(***************************************************************************)
\* the message is decodable and is a request but for its params, which are
\* absent or neither a list nor a dict
BadParams ==
    /\ Handled
    /\ Decoded.raised = "none"
    /\ LET data == Decoded.value[1]
       IN  /\ JSONRPC_parse_request(With(data, "params", <<"list", <<>>>>))
                 .exception = None
           /\ \/ "params" \notin Keys(data)
              \/ data.params[1] \notin {"list", "dict"}

\* C35: Server.handler answers bytes its serializer cannot decode with an
\* error response that has a null id and the code -32700, and a decodable
\* request whose params are neither a list nor a mapping with an error
\* response that has the code -32602.
C35_ParseErrorCodes ==
    /\ (Handled /\ Decoded.raised # "none") =>
          /\ NullIdError
          /\ handled.response[1].error.code = PARSE_ERROR_CODE
    /\ BadParams =>
          /\ handled.raised = "none"
          /\ handled.response # None
          /\ "error" \in Keys(handled.response[1])
          /\ handled.response[1].error.code = INVALID_PARAMS_CODE

(***************************************************************************)
(* Properties of to_exception.                                             *)
(***************************************************************************)
\* the kind of the taxonomy that owns a code
OwningKind(code) ==
    CASE code = PARSE_ERROR_CODE -> "ParseError"
      [] code = INVALID_REQUEST_CODE -> "InvalidRequestError"
      [] code = METHOD_NOT_FOUND_CODE -> "MethodNotFoundError"
      [] code = INVALID_PARAMS_CODE -> "InvalidParamsError"
      [] code = INTERNAL_ERROR_CODE -> "InternalError"
      [] code >= -32099 /\ code <= -32000 -> "ServerError"
      [] OTHER -> "RpcError"

\* C36: to_exception returns, for every code, an exception instance of the
\* kind that owns the code, which carries that code; for a code that no
\* kind owns, an RpcError with the response's code, message and data.
C36_ToException ==
    wire.op = "to_exception" =>
        /\ ~wire.exception.isclass
        /\ wire.exception.class = OwningKind(wire.code)
        /\ wire.exception.code = Some(wire.code)
        /\ OwningKind(wire.code) = "RpcError" =>
              /\ wire.exception.message = wire.message
              /\ wire.exception.data = wire.data

(***************************************************************************)
(* Properties of the PyRPC codec's parse_response.                         *)
(***************************************************************************)
\* C37: PyRPCProtocol.parse_response accepts an error reply exactly when
\* its error.code is an integer and its error.message a string, and the
\* error response it returns has the reply's id, code and message; so the
\* serialized form of a response create_error_response built parses to a
\* response with the same id, code and message.
C37_PyRPCErrorReply ==
    wire.op = "PyRPC parse_response" =>
        LET error == wire.data.error[2]
        IN  /\ wire.raised = "none"
                  <=> (error.code[1] = "int" /\ error.message[1] = "str")
            /\ wire.raised = "none" =>
                  /\ wire.response[1].isError
                  /\ wire.response[1].uid = wire.data.id
                  /\ wire.response[1].code = error.code
                  /\ wire.response[1].message = error.message

\* C38: a request that server_check_request rejects does not consume its
\* nonce: when the (client, nonce) pair had no live record before the call,
\* the store has no record of it after the rejection.
C38_RejectedKeepsNonce ==
    [][(/\ Called
        /\ chk'.outcome # "ok"
        /\ ~Used(request_nonces, chk'.req.client, chk'.req.nonce, now))
       => ~Recorded(request_nonces', chk'.req.client, chk'.req.nonce)]_vars

(***************************************************************************)
(* Properties of the signature of a response.                              *)
(***************************************************************************)
\* C39: once client_check_response has accepted a signed response, every
\* response with the same client and signature that differs from it in
\* id, nonce, timestamp, result or error, or kind is rejected with the
\* signature error.
C39_TamperedReplyRejected ==
    (/\ wire.op = "tampered"
     /\ wire.response.client = wire.accepted.client
     /\ wire.response.sig = wire.accepted.sig
     /\ Content(wire.response) # Content(wire.accepted))
    => wire.raised = "RPCError: sig error"

(***************************************************************************)
(* Properties of the signatures of requests and responses.                 *)
(***************************************************************************)
\* C40: no response that carries the client, nonce, timestamp and
\* signature of a request the client signed with client_sign_request,
\* whatever its id and result, is accepted by client_check_response.
C40_RequestSigNotResponseSig ==
    (/\ wire.op = "reflected"
     /\ wire.response.client = wire.request.client
     /\ wire.response.nonce = wire.request.nonce
     /\ wire.response.timestamp = wire.request.timestamp
     /\ wire.response.sig = Some(wire.request.sig))
    => wire.raised # "none"

====
